---- MODULE Spec2Model ----
(***************************************************************************)
(* Model of the cash-flow forecaster (utils/cash_flow_forecast.py), of the *)
(* pages (pages/qbo_dashboard.py, pages/QBO_EDA.py, pages/audit.py) with   *)
(* their cached loaders, of the reconciliation engine and of               *)
(* scripts/combine_hubspot_mca.py.                                         *)
(*                                                                         *)
(* Python floats are modelled as exact rationals <<n, d>> in lowest terms  *)
(* with d > 0; every arithmetic step of the source is one rational         *)
(* operation here.  Dates are day numbers, NaT is 0.                       *)
(***************************************************************************)
EXTENDS Integers, Sequences, FiniteSets, TLC

VARIABLES
    qbo_df,                  \* caller's transactions table (or None)
    closed_won_df,           \* caller's closed-won deals table
    pc,                      \* position inside create_cash_flow_forecast
    outcome,                 \* st.error message ending the run, or "none"
    has_qbo_data,
    total_inflows,
    weekly_inflow_rate, monthly_inflow_rate,
    weekly_deployment_rate, monthly_deployment_rate,
    total_days, deal_total_days, deals_per_week, deals_per_month, avg_deal_size,
    ui,                      \* the widget values of the Forecast Configuration
    deployment_rate, inflow_rate, opex_rate, net_flow_per_period,
    runway, cash_runway_metric, runway_end_metric, ending_cash,
    current_cash, forecast_data,
    below_min_warning, negative_flow_warning,
    deployment_change, inflow_change,       \* the sliders of the Scenario Analysis
    adjusted_deployment, adjusted_inflows, adjusted_net_flow,
    adjusted_runway, adjusted_runway_metric, adjusted_end_metric,
    adjusted_ending, delta_ending,
    df,                      \* the dashboard's transactions table
    risk_df,                 \* its Invoice/Payment rows without house accounts
    payment_behavior,        \* the per-customer table of the Risk Analysis section
    rpc,                     \* position inside the Risk Analysis section
    df_txn,                  \* QBO_EDA.py: the transaction report
    gl_df,                   \* QBO_EDA.py: the general ledger
    loan_transactions,       \* rows kept by the Enhanced Loan Performance Analysis
    pivot_enhanced,          \* its per-name table
    filtered_df,             \* rows kept by the Original Analysis
    pivot,                   \* its per-name table
    epc,                     \* position inside QBO_EDA.py
    dataframe,               \* qbo_dashboard.py: the table handed to preprocess_financial_data
    diagnostics,             \* the diagnostics record, a dict
    unified_data_df,         \* the unified loan/customer table
    shown,                   \* what the dashboard has rendered so far
    dpc,                     \* position inside qbo_dashboard.py
    audit_df,                \* audit.py: the deals table (df)
    won_deals,               \* its closed-won rows
    missing_loan_ids,        \* the won rows without a loan ID
    missing_pct,
    duplicate_loan_ids,
    recent_missing_ids,      \* the recent won rows without a loan ID
    audit_shown,             \* the status messages the audit page has rendered
    apc,                     \* position inside audit.py
    recon_deals,             \* reconciliation engine: the Deals it is given
    recon_txns,              \* and the Transactions
    unified_records,         \* its UnifiedLoanRecord set, one row per matched loan
    customer_summary,        \* its CustomerPaymentSummary
    total_unattributed,      \* the dashboard's 'Unattributed Payments' figures
    unattributed_warning,
    kpc,                     \* position inside the reconciliation and its tabs
    now,                     \* st.cache_data: the clock, in seconds
    source_version,          \* the version of the tables the database holds
    cache,                   \* loader |-> cached result and its load time, or NoEntry
    served,                  \* loader |-> the result its last call returned
    queries,                 \* loader |-> number of queries sent to the database
    trigger,                 \* what started the pending script run
    cpc,                     \* position of the page script using the loaders
    hubspot_deals,           \* combine_deals: the "deals" table
    mca,                     \* the "mca_deals" table
    combined,                \* the merged table
    mpc                      \* position inside combine_deals

svars == <<deployment_change, inflow_change,
           adjusted_deployment, adjusted_inflows, adjusted_net_flow,
           adjusted_runway, adjusted_runway_metric, adjusted_end_metric,
           adjusted_ending, delta_ending>>

fvars == <<qbo_df, closed_won_df, pc, outcome, has_qbo_data, total_inflows,
           weekly_inflow_rate, monthly_inflow_rate,
           weekly_deployment_rate, monthly_deployment_rate,
           total_days, deal_total_days, deals_per_week, deals_per_month, avg_deal_size,
           ui, deployment_rate, inflow_rate, opex_rate, net_flow_per_period,
           runway, cash_runway_metric, runway_end_metric, ending_cash,
           current_cash, forecast_data,
           below_min_warning, negative_flow_warning, svars>>

rvars == <<df, risk_df, payment_behavior, rpc>>

evars == <<df_txn, gl_df, loan_transactions, pivot_enhanced, filtered_df, pivot, epc>>

\* the variables of the pages other than the dashboard's Risk Analysis
dvars == <<dataframe, diagnostics, unified_data_df, shown, dpc>>

avars == <<audit_df, won_deals, missing_loan_ids, missing_pct, duplicate_loan_ids,
           recent_missing_ids, audit_shown, apc>>

kvars == <<recon_deals, recon_txns, unified_records, customer_summary,
           total_unattributed, unattributed_warning, kpc>>

cvars == <<now, source_version, cache, served, queries, trigger, cpc>>

mvars == <<hubspot_deals, mca, combined, mpc>>

\* the reconciliation engine, the loader cache and combine_deals
nvars == <<kvars, cvars, mvars>>

pvars == <<evars, dvars, avars, nvars>>

vars == <<fvars, rvars, pvars>>

(***************************************************************************)
(* Exact arithmetic                                                        *)
(***************************************************************************)
AbsInt(x) == IF x < 0 THEN -x ELSE x

RECURSIVE Gcd(_, _)
Gcd(a, b) == IF b = 0 THEN a ELSE Gcd(b, a % b)

\* n / d in lowest terms, d # 0
Rat(n, d) ==
    LET g == Gcd(AbsInt(n), AbsInt(d))
        s == IF d < 0 THEN -1 ELSE 1
    IN  <<(s * n) \div g, (s * d) \div g>>

RInt(n) == <<n, 1>>
RZero == <<0, 1>>
RAdd(a, b) == Rat(a[1] * b[2] + b[1] * a[2], a[2] * b[2])
RSub(a, b) == Rat(a[1] * b[2] - b[1] * a[2], a[2] * b[2])
\* factors are cancelled crosswise before multiplying
RMul(a, b) ==
    LET g1 == Gcd(AbsInt(a[1]), b[2])
        g2 == Gcd(AbsInt(b[1]), a[2])
    IN  <<(a[1] \div g1) * (b[1] \div g2), (a[2] \div g2) * (b[2] \div g1)>>
RInv(a) == IF a[1] < 0 THEN <<-a[2], -a[1]>> ELSE <<a[2], a[1]>>
RDiv(a, b) == RMul(a, RInv(b))
RLt(a, b) == a[1] * b[2] < b[1] * a[2]
RLe(a, b) == a[1] * b[2] <= b[1] * a[2]
RAbs(a) == <<AbsInt(a[1]), a[2]>>
RMax(a, b) == IF RLt(a, b) THEN b ELSE a
\* Python int(x): truncation toward zero
RTrunc(a) == IF a[1] >= 0 THEN a[1] \div a[2] ELSE -((-a[1]) \div a[2])

(***************************************************************************)
(* Input tables                                                            *)
(***************************************************************************)
NaT == 0                     \* a date pd.to_datetime(errors="coerce") rejected

MaxDeals == 2                \* rows in the closed-won deals table
MaxTxns == 2                 \* rows in the transactions table
MaxHorizon == 4              \* largest forecast horizon explored

DealDates == {NaT, 1, 7}
DealAmounts == {8}
DealRows == [date_created : DealDates, amount : DealAmounts]
DealKey(r) == r.date_created * 100 + r.amount

AllDealCols == {"date_created", "amount"}
AllQboCols == {"txn_date", "total_amount", "transaction_type", "customer_name"}

QboRow(t, c, d, a) ==
    [transaction_type |-> t, customer_name |-> c, txn_date |-> d, total_amount |-> a]
QboRows ==
    { QboRow("Payment", "Acme", 1, -6), QboRow("Payment", "Acme", 7, 6),
      QboRow("Payment", "Acme", NaT, 6), QboRow("Invoice", "Acme", 1, 6),
      QboRow("Payment", "CSL", 1, 6),
      QboRow("Deposit", "Acme", 7, 6), QboRow("Receipt", "Acme", 1, 6) }
QboKey(r) ==
    r.txn_date * 1000
    + (IF r.transaction_type = "Payment" THEN 0
       ELSE IF r.transaction_type = "Invoice" THEN 100
       ELSE IF r.transaction_type = "Deposit" THEN 200 ELSE 300)
    + (IF r.customer_name = "Acme" THEN 0 ELSE 10)
    + (IF r.total_amount < 0 THEN 0 ELSE 1)

\* Tables of at most max rows; the forecaster only takes min, max, sum and
\* len of a table, so one row order per multiset of rows is enough.
TablesOf(Rows, key, max) ==
    UNION { { s \in [1..n -> Rows] : \A i \in 1..(n - 1) : key[s[i]] <= key[s[i + 1]] }
            : n \in 0..max }

\* History whose weekly rates are the ones of the documented scenario:
\* 10,000 deployed and 12,000 repaid over one week.
ScenarioDeals ==
    [cols |-> AllDealCols, parsed |-> {},
     rows |-> << [date_created |-> 1, amount |-> 4000],
                 [date_created |-> 7, amount |-> 6000] >>]
ScenarioQbo ==
    [none |-> FALSE, cols |-> AllQboCols, parsed |-> {},
     rows |-> << QboRow("Payment", "Acme", 1, -5000),
                 QboRow("Payment", "Acme", 7, 7000) >>]

\* Histories under which the whole configuration space is explored.
ReferenceDeals ==
    [cols |-> AllDealCols, parsed |-> {},
     rows |-> << [date_created |-> 1, amount |-> 8],
                 [date_created |-> 7, amount |-> 8] >>]
ReferenceQbo ==
    [none |-> FALSE, cols |-> AllQboCols, parsed |-> {},
     rows |-> << QboRow("Payment", "Acme", 1, -6),
                 QboRow("Payment", "Acme", 7, 6) >>]
NoneQbo == [none |-> TRUE, cols |-> {}, parsed |-> {}, rows |-> << >>]

\* The tables are the caller's, as loaded: no column has been converted yet
\* (parsed is empty).  A row holds, for each column, the value the conversion
\* gives it; a column outside cols is absent from the table.
DealTables ==
    { [cols |-> AllDealCols, parsed |-> {}, rows |-> s]
        : s \in TablesOf(DealRows, [r \in DealRows |-> DealKey(r)], MaxDeals) }
    \cup { [cols |-> {"amount"}, parsed |-> {},
            rows |-> << [date_created |-> NaT, amount |-> 8] >>],
          [cols |-> {"date_created"}, parsed |-> {},
            rows |-> << [date_created |-> 1, amount |-> 0] >>] }
    \cup { ScenarioDeals }

QboTables ==
    { [none |-> FALSE, cols |-> AllQboCols, parsed |-> {}, rows |-> s]
        : s \in TablesOf(QboRows, [r \in QboRows |-> QboKey(r)], MaxTxns) }
    \cup { [none |-> FALSE, cols |-> AllQboCols \ {"txn_date"}, parsed |-> {},
            rows |-> << QboRow("Payment", "Acme", NaT, 6) >>] }
    \cup { [none |-> FALSE, cols |-> AllQboCols \ {c}, parsed |-> {},
            rows |-> << QboRow("Payment", "Acme", 1, 6) >>]
          : c \in {"total_amount", "transaction_type", "customer_name"} }
    \cup { NoneQbo, ScenarioQbo }

(***************************************************************************)
(* Baseline estimation (cash_flow_forecast.py lines 19-81)                 *)
(***************************************************************************)
DaysPerWeek == 7
DaysPerMonth == <<761, 25>>          \* 30.44

MinOf(S) == CHOOSE x \in S : \A y \in S : x <= y
MaxOf(S) == CHOOSE x \in S : \A y \in S : y <= x

RECURSIVE SumAbsAmount(_)
SumAbsAmount(rows) ==
    IF rows = << >> THEN 0
    ELSE AbsInt(Head(rows).total_amount) + SumAbsAmount(Tail(rows))

RECURSIVE SumAmount(_)
SumAmount(rows) ==
    IF rows = << >> THEN 0 ELSE Head(rows).amount + SumAmount(Tail(rows))

\* amount per period of period_days days, over a span of span_days days
RatePer(total, span_days, period_days) ==
    RDiv(total, RDiv(RInt(span_days), period_days))

InflowTypes == {"Payment", "Receipt"}
HouseAccounts == {"CSL", "VEEM"}

IsCustomerPayment(r) ==
    /\ r.transaction_type \in InflowTypes
    /\ r.customer_name \notin HouseAccounts
    /\ r.txn_date # NaT

\* line 24
QboUsable(table) ==
    ~ table.none /\ Len(table.rows) # 0 /\ table.cols # {} /\ "txn_date" \in table.cols

\* line 56
DealsUsable(table) ==
    Len(table.rows) # 0 /\ table.cols # {} /\ "date_created" \in table.cols

\* lines 20-45
InflowBaseline(table) ==
    LET none == [has |-> FALSE, days |-> 0, total |-> RZero,
                 weekly |-> RZero, monthly |-> RZero] IN
    IF ~ QboUsable(table) THEN none
    ELSE
        LET customer_payments == SelectSeq(table.rows, IsCustomerPayment) IN
        IF Len(customer_payments) = 0 THEN none
        ELSE
            LET dates == { customer_payments[i].txn_date : i \in DOMAIN customer_payments }
                days == (MaxOf(dates) - MinOf(dates)) + 1
                total == RInt(SumAbsAmount(customer_payments))
            IN  IF days > 0
                THEN [has |-> TRUE, days |-> days, total |-> total,
                      weekly |-> RatePer(total, days, RInt(DaysPerWeek)),
                      monthly |-> RatePer(total, days, DaysPerMonth)]
                ELSE [has |-> TRUE, days |-> days, total |-> RZero,
                      weekly |-> RZero, monthly |-> RZero]

HasDate(r) == r.date_created # NaT

\* DeploymentBaseline with the span counted without its last day
DeploymentBaseline_ExclusiveSpan(valid) ==
    LET dates == { valid[i].date_created : i \in DOMAIN valid }
        days == MaxOf(dates) - MinOf(dates)
        total_deployed == RInt(SumAmount(valid))
        deal_count == RInt(Len(valid))
    IN  [days |-> days,
         weekly |-> IF days > 0 THEN RatePer(total_deployed, days, RInt(DaysPerWeek)) ELSE RZero,
         monthly |-> IF days > 0 THEN RatePer(total_deployed, days, DaysPerMonth) ELSE RZero,
         avg |-> RDiv(total_deployed, deal_count),
         per_week |-> IF days > 0 THEN RatePer(deal_count, days, RInt(DaysPerWeek)) ELSE RZero,
         per_month |-> IF days > 0 THEN RatePer(deal_count, days, DaysPerMonth) ELSE RZero]

\* lines 64-81, on the rows with a valid date_created
DeploymentBaseline(valid) ==
    LET dates == { valid[i].date_created : i \in DOMAIN valid }
        days == (MaxOf(dates) - MinOf(dates)) + 1
        total_deployed == RInt(SumAmount(valid))
        deal_count == RInt(Len(valid))
    IN  [days |-> days,
         weekly |-> IF days > 0 THEN RatePer(total_deployed, days, RInt(DaysPerWeek)) ELSE RZero,
         monthly |-> IF days > 0 THEN RatePer(total_deployed, days, DaysPerMonth) ELSE RZero,
         avg |-> RDiv(total_deployed, deal_count),
         per_week |-> IF days > 0 THEN RatePer(deal_count, days, RInt(DaysPerWeek)) ELSE RZero,
         per_month |-> IF days > 0 THEN RatePer(deal_count, days, DaysPerMonth) ELSE RZero]

(***************************************************************************)
(* Forecast configuration widgets (lines 113-271)                          *)
(***************************************************************************)
DefaultStartingCash == 500000
DefaultMinCashReserve == 100000
DefaultWeeklyOpex == 2500
DefaultWeeklyHorizon == 26
MinWeeklyHorizon == 4
MaxWeeklyHorizon == 52
MinMonthlyHorizon == 3
MaxMonthlyHorizon == 24

ForecastPeriods == {"Weekly", "Monthly"}
BaseMethods == {"Historical Average", "Conservative (75%)", "Aggressive (125%)"}
InflowBaseMethods == {"Historical Average", "Conservative (75%)", "Optimistic (125%)"}

StartingCashValues == {0, 20, 100}
ThresholdValues == {0, 20}
OpexValues == {0, 10}
CustomAmounts == {0, 50}
TargetDealsValues == { <<1, 2>>, <<2, 1>> }
ParticipationValues == {8}
CustomInflowValues == {20}

\* the sliders of lines 259-271
Horizons(p) ==
    IF p = "Weekly"
    THEN { h \in MinWeeklyHorizon..MaxWeeklyHorizon : h <= MaxHorizon }
    ELSE { h \in MinMonthlyHorizon..MaxMonthlyHorizon : h <= MaxHorizon }

\* lines 147-204: the custom amount is asked only under "Custom"; the two
\* levers are always asked and start at the historical values
DeploymentChoices(p, per_week, per_month, avg) ==
    LET lever_default == IF p = "Weekly" THEN per_week ELSE per_month IN
    { [method |-> dm, custom |-> 0, target |-> lever_default, avg |-> RTrunc(avg)]
        : dm \in BaseMethods }
    \cup { [method |-> "Custom", custom |-> cd, target |-> td, avg |-> ap]
        : cd \in CustomAmounts, td \in TargetDealsValues, ap \in ParticipationValues }

\* lines 206-232: asked only when QBO payments exist
InflowChoices(has) ==
    IF has
    THEN { [method |-> im, custom |-> 0] : im \in InflowBaseMethods }
         \cup { [method |-> "Custom", custom |-> ci] : ci \in CustomInflowValues }
    ELSE { [method |-> "not asked", custom |-> 0] }

MkUi(s, m, p, dep, inf, o, h) ==
    [starting_cash |-> s, min_cash_threshold |-> m, forecast_period |-> p,
     deployment_method |-> dep.method, custom_deployment |-> dep.custom,
     target_deals_per_period |-> dep.target, avg_participation |-> dep.avg,
     inflow_method |-> inf.method, custom_inflow |-> inf.custom,
     opex_input |-> o, forecast_horizon |-> h]

NoUi ==
    MkUi(0, 0, "Weekly",
         [method |-> "Historical Average", custom |-> 0, target |-> RZero, avg |-> 0],
         [method |-> "not asked", custom |-> 0], 0, 0)

HistoricalDeployment(per_week, avg) ==
    [method |-> "Historical Average", custom |-> 0, target |-> per_week, avg |-> RTrunc(avg)]

\* every widget left at its default, weekly
DefaultSettings(has, per_week, avg) ==
    { MkUi(DefaultStartingCash, DefaultMinCashReserve, "Weekly",
           HistoricalDeployment(per_week, avg),
           [method |-> IF has THEN "Historical Average" ELSE "not asked", custom |-> 0],
           DefaultWeeklyOpex, DefaultWeeklyHorizon) }

BasicSettings(has, per_week, avg) ==
    { MkUi(100, 20, "Weekly", HistoricalDeployment(per_week, avg),
           [method |-> IF has THEN "Historical Average" ELSE "not asked", custom |-> 0],
           10, MinWeeklyHorizon) }

RichSettings(has, per_week, per_month, avg) ==
    UNION { { MkUi(s, m, p, dep, inf, o, h)
                : s \in StartingCashValues, m \in ThresholdValues,
                  dep \in DeploymentChoices(p, per_week, per_month, avg),
                  inf \in InflowChoices(has), o \in OpexValues, h \in Horizons(p) }
            : p \in ForecastPeriods }

\* The widget settings explored for a history: all of them for the reference
\* histories, the defaults for the documented scenario, one setting otherwise.
Settings(deals, qbo, has, per_week, per_month, avg) ==
    IF deals.rows = ScenarioDeals.rows THEN DefaultSettings(has, per_week, avg)
    ELSE IF deals.rows = ReferenceDeals.rows /\ (qbo.none \/ qbo.rows = ReferenceQbo.rows)
         THEN RichSettings(has, per_week, per_month, avg)
         ELSE BasicSettings(has, per_week, avg)

(***************************************************************************)
(* Scenario resolution (lines 273-312)                                     *)
(***************************************************************************)
ThreeQuarters == <<3, 4>>
FiveQuarters == <<5, 4>>

\* lines 274-281
BaseRate(p, weekly, monthly) == IF p = "Weekly" THEN weekly ELSE monthly

\* line 204
LeverBasedDeployment(u) == RMul(u.target_deals_per_period, RInt(u.avg_participation))

\* ResolveDeployment taking the entered custom amount under "Custom"
ResolveDeployment_CustomAmount(u, weekly, monthly) ==
    LET base_deployment == BaseRate(u.forecast_period, weekly, monthly) IN
    IF u.deployment_method = "Historical Average" THEN base_deployment
    ELSE IF u.deployment_method = "Conservative (75%)" THEN RMul(base_deployment, ThreeQuarters)
    ELSE IF u.deployment_method = "Aggressive (125%)" THEN RMul(base_deployment, FiveQuarters)
    ELSE RInt(u.custom_deployment)

\* lines 283-293
ResolveDeployment(u, weekly, monthly) ==
    LET base_deployment == BaseRate(u.forecast_period, weekly, monthly) IN
    IF u.deployment_method = "Historical Average" THEN base_deployment
    ELSE IF u.deployment_method = "Conservative (75%)" THEN RMul(base_deployment, ThreeQuarters)
    ELSE IF u.deployment_method = "Aggressive (125%)" THEN RMul(base_deployment, FiveQuarters)
    ELSE LeverBasedDeployment(u)

\* lines 295-306
ResolveInflow(u, has, weekly, monthly) ==
    LET base_inflow == BaseRate(u.forecast_period, weekly, monthly) IN
    IF has
    THEN IF u.inflow_method = "Historical Average" THEN base_inflow
         ELSE IF u.inflow_method = "Conservative (75%)" THEN RMul(base_inflow, ThreeQuarters)
         ELSE IF u.inflow_method = "Optimistic (125%)" THEN RMul(base_inflow, FiveQuarters)
         ELSE RInt(u.custom_inflow)
    ELSE RZero

\* line 312
NetFlow(inflows, deployment, opex) == RSub(RSub(inflows, deployment), opex)

(***************************************************************************)
(* Headline metrics (lines 327-384)                                        *)
(***************************************************************************)
\* lines 330-332, 343-345
RunwayPeriods(starting_cash, min_cash_threshold, net) ==
    RDiv(RInt(starting_cash - min_cash_threshold), RAbs(net))

\* lines 328-336: whether runway_ending_date is set
HasRunwayEndingDate(starting_cash, min_cash_threshold, net) ==
    RLt(net, RZero) /\ starting_cash - min_cash_threshold > 0

\* lines 341-358: the metric of the first column
CashRunwayMetric(starting_cash, min_cash_threshold, net) ==
    IF RLt(net, RZero)
    THEN IF starting_cash - min_cash_threshold > 0
         THEN "Cash Runway: periods"
         ELSE "Cash Runway: Below minimum"
    ELSE "Cash Flow: Positive"

\* lines 360-368: the metric of the second column
RunwayEndMetric(starting_cash, min_cash_threshold, net) ==
    IF HasRunwayEndingDate(starting_cash, min_cash_threshold, net)
    THEN "Runway Ends: date"
    ELSE "Runway: Indefinite"

\* EndingCash counting the starting row as a period
EndingCash_CountingStartRow(starting_cash, net, horizon) ==
    RAdd(RInt(starting_cash), RMul(net, RInt(horizon + 1)))

\* line 371
EndingCash(starting_cash, net, horizon) ==
    RAdd(RInt(starting_cash), RMul(net, RInt(horizon)))

(***************************************************************************)
(* Projection loop (lines 396-431)                                         *)
(***************************************************************************)
\* lines 400-407
StartingRow(starting_cash) ==
    [cash_position |-> RInt(starting_cash), deployment |-> RZero,
     inflows |-> RZero, opex |-> RZero, net_flow |-> RZero]

\* PeriodDeployment without the cash constraint
PeriodDeployment_NoThrottle(cash, rate, opex, min_cash_threshold) == rate

\* PeriodDeployment cut to the room above the reserve without the floor at 0
PeriodDeployment_NoFloor(cash, rate, opex, min_cash_threshold) ==
    IF RLt(RSub(RSub(cash, rate), opex), RInt(min_cash_threshold))
    THEN RSub(RSub(cash, RInt(min_cash_threshold)), opex)
    ELSE rate

\* lines 412, 417-418
PeriodDeployment(cash, rate, opex, min_cash_threshold) ==
    IF RLt(RSub(RSub(cash, rate), opex), RInt(min_cash_threshold))
    THEN RMax(RZero, RSub(RSub(cash, RInt(min_cash_threshold)), opex))
    ELSE rate

\* PeriodRow moving the cash by the scenario rate, not by the period's deployment
PeriodRow_CashFromRate(cash, rate, inflows, opex, min_cash_threshold) ==
    LET period_deployment == PeriodDeployment(cash, rate, opex, min_cash_threshold)
        period_net_flow == NetFlow(inflows, period_deployment, opex)
    IN  [cash_position |-> RAdd(cash, NetFlow(inflows, rate, opex)),
         deployment |-> period_deployment,
         inflows |-> inflows,
         opex |-> opex,
         net_flow |-> period_net_flow]

\* PeriodRow testing the constraint after the period's inflows are added
PeriodRow_InflowsFirst(cash, rate, inflows, opex, min_cash_threshold) ==
    LET period_deployment ==
            PeriodDeployment(RAdd(cash, inflows), rate, opex, min_cash_threshold)
        period_net_flow == NetFlow(inflows, period_deployment, opex)
    IN  [cash_position |-> RAdd(cash, period_net_flow),
         deployment |-> period_deployment,
         inflows |-> inflows,
         opex |-> opex,
         net_flow |-> period_net_flow]

\* PeriodRow cutting opex as well when the constraint binds
PeriodRow_OpexThrottled(cash, rate, inflows, opex, min_cash_threshold) ==
    LET period_deployment == PeriodDeployment(cash, rate, opex, min_cash_threshold)
        period_opex == IF period_deployment = rate THEN opex ELSE RZero
        period_net_flow == NetFlow(inflows, period_deployment, period_opex)
    IN  [cash_position |-> RAdd(cash, period_net_flow),
         deployment |-> period_deployment,
         inflows |-> inflows,
         opex |-> period_opex,
         net_flow |-> period_net_flow]

\* lines 411-431: the row one pass of the loop appends
PeriodRow(cash, rate, inflows, opex, min_cash_threshold) ==
    LET period_deployment == PeriodDeployment(cash, rate, opex, min_cash_threshold)
        period_inflows == inflows
        period_opex == opex
        period_net_flow == NetFlow(period_inflows, period_deployment, period_opex)
    IN  [cash_position |-> RAdd(cash, period_net_flow),
         deployment |-> period_deployment,
         inflows |-> period_inflows,
         opex |-> period_opex,
         net_flow |-> period_net_flow]

\* line 633: forecast_df["Cash Position"].min() < min_cash_threshold
CashFallsBelow(rows, min_cash_threshold) ==
    \E i \in DOMAIN rows : RLt(rows[i].cash_position, RInt(min_cash_threshold))

(***************************************************************************)
(* Scenario Analysis (lines 640-734)                                       *)
(***************************************************************************)
\* the slider positions explored, out of -50, -40, ..., 50
ScenarioChanges == {-50, 0, 50}

\* lines 667-668
AdjustedRate(rate, change) == RMul(rate, RAdd(RInt(1), Rat(change, 100)))

\* lines 693-709: the first adjusted metric; nothing is shown when the flow is
\* negative and no cash is usable
AdjustedRunwayMetric(starting_cash, min_cash_threshold, adjusted_net) ==
    IF RLt(adjusted_net, RZero)
    THEN IF starting_cash - min_cash_threshold > 0
         THEN "Adjusted Runway: periods"
         ELSE "none"
    ELSE "Adjusted Status: Cash Positive"

\* lines 680-688 and 711-725: the second adjusted metric
AdjustedEndMetric(starting_cash, min_cash_threshold, net, adjusted_net) ==
    IF HasRunwayEndingDate(starting_cash, min_cash_threshold, adjusted_net)
    THEN IF HasRunwayEndingDate(starting_cash, min_cash_threshold, net)
         THEN "Adjusted End Date: date"
         ELSE "Runway End Date: date"
    ELSE "Adjusted Runway: Indefinite"

(***************************************************************************)
(* create_cash_flow_forecast as a state machine                            *)
(***************************************************************************)
ForecastDefaults ==
    /\ outcome = "none"
    /\ has_qbo_data = FALSE
    /\ total_inflows = RZero
    /\ weekly_inflow_rate = RZero
    /\ monthly_inflow_rate = RZero
    /\ total_days = 0
    /\ weekly_deployment_rate = RZero
    /\ monthly_deployment_rate = RZero
    /\ deal_total_days = 0
    /\ deals_per_week = RZero
    /\ deals_per_month = RZero
    /\ avg_deal_size = RZero
    /\ ui = NoUi
    /\ deployment_rate = RZero
    /\ inflow_rate = RZero
    /\ opex_rate = RZero
    /\ net_flow_per_period = RZero
    /\ runway = RZero
    /\ cash_runway_metric = "none"
    /\ runway_end_metric = "none"
    /\ ending_cash = RZero
    /\ current_cash = RZero
    /\ forecast_data = << >>
    /\ below_min_warning = FALSE
    /\ negative_flow_warning = FALSE
    /\ deployment_change = 0
    /\ inflow_change = 0
    /\ adjusted_deployment = RZero
    /\ adjusted_inflows = RZero
    /\ adjusted_net_flow = RZero
    /\ adjusted_runway = RZero
    /\ adjusted_runway_metric = "none"
    /\ adjusted_end_metric = "none"
    /\ adjusted_ending = RZero
    /\ delta_ending = RZero

\* QBO_EDA.py is not running
EdaIdle ==
    /\ df_txn = [cols |-> {}, rows |-> << >>]
    /\ gl_df = [cols |-> {}, rows |-> << >>]
    /\ loan_transactions = << >>
    /\ pivot_enhanced = << >>
    /\ filtered_df = << >>
    /\ pivot = << >>
    /\ epc = "idle"

\* qbo_dashboard.py is not running
DashIdle ==
    /\ dataframe = [cols |-> {}, parsed |-> {}, len |-> 0]
    /\ diagnostics = << >>
    /\ unified_data_df = [cols |-> {}, len |-> 0]
    /\ shown = {}
    /\ dpc = "idle"

\* audit.py is not running
AuditIdle ==
    /\ audit_df = [cols |-> {}, rows |-> << >>]
    /\ won_deals = << >>
    /\ missing_loan_ids = << >>
    /\ missing_pct = RZero
    /\ duplicate_loan_ids = 0
    /\ recent_missing_ids = << >>
    /\ audit_shown = {}
    /\ apc = "idle"

\* the reconciliation engine is not running
ReconIdle ==
    /\ recon_deals = << >>
    /\ recon_txns = << >>
    /\ unified_records = << >>
    /\ customer_summary = << >>
    /\ total_unattributed = [unified |-> 0, summary |-> 0]
    /\ unattributed_warning = FALSE
    /\ kpc = "idle"

\* no page with a cached loader is running
CacheIdle ==
    /\ now = 0
    /\ source_version = 0
    /\ cache = << >>
    /\ served = << >>
    /\ queries = << >>
    /\ trigger = "none"
    /\ cpc = "idle"

\* combine_deals is not running
CombineIdle ==
    /\ hubspot_deals = [cols |-> {}, rows |-> << >>]
    /\ mca = [cols |-> {}, rows |-> << >>]
    /\ combined = << >>
    /\ mpc = "idle"

OthersIdle == ReconIdle /\ CacheIdle /\ CombineIdle

PagesIdle == EdaIdle /\ DashIdle /\ AuditIdle /\ OthersIdle

\* the Risk Analysis section is not running
RiskIdle ==
    /\ df = << >>
    /\ risk_df = << >>
    /\ payment_behavior = << >>
    /\ rpc = "idle"

\* the forecaster is not running
ForecastIdle ==
    /\ qbo_df = NoneQbo
    /\ closed_won_df = [cols |-> AllDealCols, parsed |-> {}, rows |-> << >>]
    /\ pc = "idle"
    /\ ForecastDefaults

Init ==
    /\ qbo_df \in QboTables
    /\ closed_won_df \in DealTables
    /\ (closed_won_df = ScenarioDeals) <=> (qbo_df = ScenarioQbo)
    /\ pc = "qbo"
    /\ ForecastDefaults
    /\ RiskIdle
    /\ PagesIdle

\* lines 19-53: the conversions of lines 26-27 are assigned into the caller's
\* table; a column read by lines 27-33 that the table lacks raises KeyError
ProcessQbo ==
    /\ pc = "qbo"
    /\ IF ~ QboUsable(qbo_df)
       THEN /\ pc' = "deals"
            /\ UNCHANGED <<qbo_df, outcome, has_qbo_data, total_days, total_inflows,
                           weekly_inflow_rate, monthly_inflow_rate>>
       ELSE IF "total_amount" \notin qbo_df.cols
       THEN /\ qbo_df' = [qbo_df EXCEPT !.parsed = {"txn_date"}]
            /\ outcome' = "KeyError"
            /\ pc' = "done"
            /\ UNCHANGED <<has_qbo_data, total_days, total_inflows,
                           weekly_inflow_rate, monthly_inflow_rate>>
       ELSE IF ~ ({"transaction_type", "customer_name"} \subseteq qbo_df.cols)
       THEN /\ qbo_df' = [qbo_df EXCEPT !.parsed = {"txn_date", "total_amount"}]
            /\ outcome' = "KeyError"
            /\ pc' = "done"
            /\ UNCHANGED <<has_qbo_data, total_days, total_inflows,
                           weekly_inflow_rate, monthly_inflow_rate>>
       ELSE /\ qbo_df' = [qbo_df EXCEPT !.parsed = {"txn_date", "total_amount"}]
            /\ LET b == InflowBaseline(qbo_df) IN
                /\ has_qbo_data' = b.has
                /\ total_days' = b.days
                /\ total_inflows' = b.total
                /\ weekly_inflow_rate' = b.weekly
                /\ monthly_inflow_rate' = b.monthly
            /\ pc' = "deals"
            /\ UNCHANGED outcome
    /\ UNCHANGED <<closed_won_df,
                   weekly_deployment_rate, monthly_deployment_rate,
                   deal_total_days, deals_per_week, deals_per_month, avg_deal_size,
                   ui, deployment_rate, inflow_rate, opex_rate, net_flow_per_period,
                   runway, cash_runway_metric, runway_end_metric, ending_cash,
                   current_cash, forecast_data,
                   below_min_warning, negative_flow_warning, svars, rvars, pvars>>

\* lines 55-81 and 736-740: the conversions of lines 58-59 are assigned into
\* the caller's table; line 62 rebinds the local name only
ProcessDeals ==
    /\ pc = "deals"
    /\ IF ~ DealsUsable(closed_won_df)
       THEN /\ outcome' = "No deal data available for forecasting"
            /\ pc' = "done"
            /\ UNCHANGED <<closed_won_df,
                           weekly_deployment_rate, monthly_deployment_rate,
                           deal_total_days, deals_per_week, deals_per_month,
                           avg_deal_size>>
       ELSE IF "amount" \notin closed_won_df.cols
       THEN /\ closed_won_df' = [closed_won_df EXCEPT !.parsed = {"date_created"}]
            /\ outcome' = "KeyError"
            /\ pc' = "done"
            /\ UNCHANGED <<weekly_deployment_rate, monthly_deployment_rate,
                           deal_total_days, deals_per_week, deals_per_month,
                           avg_deal_size>>
       ELSE /\ closed_won_df' =
                  [closed_won_df EXCEPT !.parsed = {"date_created", "amount"}]
            /\ LET valid == SelectSeq(closed_won_df.rows, HasDate) IN
               IF Len(valid) = 0
               THEN /\ outcome' = "No valid deal data available for forecasting"
                    /\ pc' = "done"
                    /\ UNCHANGED <<weekly_deployment_rate, monthly_deployment_rate,
                                   deal_total_days, deals_per_week, deals_per_month,
                                   avg_deal_size>>
               ELSE LET b == DeploymentBaseline(valid) IN
                    /\ deal_total_days' = b.days
                    /\ weekly_deployment_rate' = b.weekly
                    /\ monthly_deployment_rate' = b.monthly
                    /\ avg_deal_size' = b.avg
                    /\ deals_per_week' = b.per_week
                    /\ deals_per_month' = b.per_month
                    /\ pc' = "config"
                    /\ UNCHANGED outcome
    /\ UNCHANGED <<qbo_df, has_qbo_data, total_days, total_inflows,
                   weekly_inflow_rate, monthly_inflow_rate,
                   ui, deployment_rate, inflow_rate, opex_rate, net_flow_per_period,
                   runway, cash_runway_metric, runway_end_metric, ending_cash,
                   current_cash, forecast_data,
                   below_min_warning, negative_flow_warning, svars, rvars, pvars>>

\* lines 113-312: the widgets are read and the scenario rates resolved
Configure ==
    /\ pc = "config"
    /\ \E u \in Settings(closed_won_df, qbo_df, has_qbo_data,
                         deals_per_week, deals_per_month, avg_deal_size) :
        /\ ui' = u
        /\ deployment_rate' =
               ResolveDeployment(u, weekly_deployment_rate, monthly_deployment_rate)
        /\ inflow_rate' =
               ResolveInflow(u, has_qbo_data, weekly_inflow_rate, monthly_inflow_rate)
        /\ opex_rate' = RInt(u.opex_input)
        /\ net_flow_per_period' = NetFlow(inflow_rate', deployment_rate', opex_rate')
    /\ pc' = "metrics"
    /\ UNCHANGED <<qbo_df, closed_won_df, outcome, has_qbo_data, total_days, total_inflows,
                   weekly_inflow_rate, monthly_inflow_rate,
                   weekly_deployment_rate, monthly_deployment_rate,
                   deal_total_days, deals_per_week, deals_per_month, avg_deal_size,
                   runway, cash_runway_metric, runway_end_metric, ending_cash,
                   current_cash, forecast_data,
                   below_min_warning, negative_flow_warning, svars, rvars, pvars>>

\* lines 327-407: the four headline metrics, then the starting row
Metrics ==
    /\ pc = "metrics"
    /\ cash_runway_metric' =
           CashRunwayMetric(ui.starting_cash, ui.min_cash_threshold, net_flow_per_period)
    /\ runway' =
           IF cash_runway_metric' = "Cash Runway: periods"
           THEN RunwayPeriods(ui.starting_cash, ui.min_cash_threshold, net_flow_per_period)
           ELSE RZero
    /\ runway_end_metric' =
           RunwayEndMetric(ui.starting_cash, ui.min_cash_threshold, net_flow_per_period)
    /\ ending_cash' = EndingCash(ui.starting_cash, net_flow_per_period, ui.forecast_horizon)
    /\ current_cash' = RInt(ui.starting_cash)
    /\ forecast_data' = << StartingRow(ui.starting_cash) >>
    /\ pc' = "loop"
    /\ UNCHANGED <<qbo_df, closed_won_df, outcome, has_qbo_data, total_days, total_inflows,
                   weekly_inflow_rate, monthly_inflow_rate,
                   weekly_deployment_rate, monthly_deployment_rate,
                   deal_total_days, deals_per_week, deals_per_month, avg_deal_size,
                   ui, deployment_rate, inflow_rate, opex_rate, net_flow_per_period,
                   below_min_warning, negative_flow_warning, svars, rvars, pvars>>

\* lines 410-431: one pass of the loop over dates[1:]
ProjectPeriod ==
    /\ pc = "loop"
    /\ Len(forecast_data) < ui.forecast_horizon + 1
    /\ LET row == PeriodRow(current_cash, deployment_rate, inflow_rate, opex_rate,
                            ui.min_cash_threshold) IN
        /\ current_cash' = row.cash_position
        /\ forecast_data' = Append(forecast_data, row)
    /\ UNCHANGED <<qbo_df, closed_won_df, pc, outcome, has_qbo_data, total_days, total_inflows,
                   weekly_inflow_rate, monthly_inflow_rate,
                   weekly_deployment_rate, monthly_deployment_rate,
                   deal_total_days, deals_per_week, deals_per_month, avg_deal_size,
                   ui, deployment_rate, inflow_rate, opex_rate, net_flow_per_period,
                   runway, cash_runway_metric, runway_end_metric, ending_cash,
                   below_min_warning, negative_flow_warning, svars, rvars, pvars>>

\* lines 433, 632-638: the loop is over; the table is shown with its warnings
Warnings ==
    /\ pc = "loop"
    /\ Len(forecast_data) = ui.forecast_horizon + 1
    /\ below_min_warning' = CashFallsBelow(forecast_data, ui.min_cash_threshold)
    /\ negative_flow_warning' = RLt(net_flow_per_period, RZero)
    /\ pc' = "scenario"
    /\ UNCHANGED <<qbo_df, closed_won_df, outcome, has_qbo_data, total_days, total_inflows,
                   weekly_inflow_rate, monthly_inflow_rate,
                   weekly_deployment_rate, monthly_deployment_rate,
                   deal_total_days, deals_per_week, deals_per_month, avg_deal_size,
                   ui, deployment_rate, inflow_rate, opex_rate, net_flow_per_period,
                   runway, cash_runway_metric, runway_end_metric, ending_cash,
                   current_cash, forecast_data, svars, rvars, pvars>>

\* lines 640-734: the Scenario Analysis below the projection table
ScenarioAnalysis ==
    /\ pc = "scenario"
    /\ \E dc \in ScenarioChanges, ic \in ScenarioChanges :
        /\ deployment_change' = dc
        /\ inflow_change' = ic
        /\ adjusted_deployment' = AdjustedRate(deployment_rate, dc)
        /\ adjusted_inflows' = AdjustedRate(inflow_rate, ic)
    /\ adjusted_net_flow' = NetFlow(adjusted_inflows', adjusted_deployment', opex_rate)
    /\ adjusted_runway_metric' =
           AdjustedRunwayMetric(ui.starting_cash, ui.min_cash_threshold, adjusted_net_flow')
    /\ adjusted_runway' =
           IF adjusted_runway_metric' = "Adjusted Runway: periods"
           THEN RunwayPeriods(ui.starting_cash, ui.min_cash_threshold, adjusted_net_flow')
           ELSE RZero
    /\ adjusted_end_metric' =
           AdjustedEndMetric(ui.starting_cash, ui.min_cash_threshold,
                             net_flow_per_period, adjusted_net_flow')
    /\ adjusted_ending' = EndingCash(ui.starting_cash, adjusted_net_flow', ui.forecast_horizon)
    /\ delta_ending' = RSub(adjusted_ending', ending_cash)
    /\ pc' = "done"
    /\ UNCHANGED <<qbo_df, closed_won_df, outcome, has_qbo_data, total_days, total_inflows,
                   weekly_inflow_rate, monthly_inflow_rate,
                   weekly_deployment_rate, monthly_deployment_rate,
                   deal_total_days, deals_per_week, deals_per_month, avg_deal_size,
                   ui, deployment_rate, inflow_rate, opex_rate, net_flow_per_period,
                   runway, cash_runway_metric, runway_end_metric, ending_cash,
                   current_cash, forecast_data,
                   below_min_warning, negative_flow_warning, rvars, pvars>>

Next ==
    \/ ProcessQbo
    \/ ProcessDeals
    \/ Configure
    \/ Metrics
    \/ ProjectPeriod
    \/ Warnings
    \/ ScenarioAnalysis

Spec == Init /\ [][Next]_vars

(***************************************************************************)
(* Properties of the projection loop                                       *)
(***************************************************************************)
Projecting == pc \in {"loop", "scenario", "done"} /\ outcome = "none"
Finished == pc = "done" /\ outcome = "none"
Periods == { i \in DOMAIN forecast_data : i > 1 }
OpeningCash(i) == forecast_data[i - 1].cash_position

\* the test of line 417 at the start of period i
ThrottleFires(i) ==
    RLt(RSub(RSub(OpeningCash(i), deployment_rate), opex_rate),
        RInt(ui.min_cash_threshold))

\* C1: every recorded period has Net Flow = Inflows - Deployment - OpEx and
\* Cash Position = previous Cash Position + Net Flow; the first row is the
\* starting point with Cash Position = starting_cash and all flows 0.
C1_NetFlowIdentity ==
    Projecting =>
        /\ Len(forecast_data) >= 1
        /\ forecast_data[1].cash_position = RInt(ui.starting_cash)
        /\ forecast_data[1].deployment = RZero
        /\ forecast_data[1].inflows = RZero
        /\ forecast_data[1].opex = RZero
        /\ forecast_data[1].net_flow = RZero
        /\ \A i \in Periods :
            LET r == forecast_data[i] IN
            /\ RAdd(RAdd(r.net_flow, r.deployment), r.opex) = r.inflows
            /\ RSub(r.cash_position, OpeningCash(i)) = r.net_flow

\* a finished projection with a throttled period and a non-zero net flow
C1_Witness ==
    /\ Finished
    /\ \E i \in Periods :
        /\ forecast_data[i].deployment # deployment_rate
        /\ forecast_data[i].net_flow # RZero
        /\ forecast_data[i].inflows # RZero

\* C2 (as claimed): whenever starting_cash >= min_cash_threshold, every
\* recorded Cash Position is >= min_cash_threshold.
C2_CashFloorAlways ==
    (Projecting /\ ui.starting_cash >= ui.min_cash_threshold) =>
        \A i \in DOMAIN forecast_data :
            RLe(RInt(ui.min_cash_threshold), forecast_data[i].cash_position)

\* C2 (amended): the Cash Position of a period is >= min_cash_threshold
\* whenever the cash at the start of that period covers the period's opex
\* above the reserve (opening cash - opex >= min_cash_threshold); deployment
\* is never negative.
C2_CashFloorWhenFeasible ==
    Projecting =>
        \A i \in Periods :
            /\ RLe(RZero, forecast_data[i].deployment)
            /\ RLe(RInt(ui.min_cash_threshold), RSub(OpeningCash(i), opex_rate))
                => RLe(RInt(ui.min_cash_threshold), forecast_data[i].cash_position)

\* deployment throttled to a positive amount in a period that can afford opex
C2_Witness ==
    /\ Finished
    /\ ui.starting_cash >= ui.min_cash_threshold
    /\ \E i \in Periods :
        /\ ThrottleFires(i)
        /\ RLt(RZero, forecast_data[i].deployment)
        /\ RLe(RInt(ui.min_cash_threshold), RSub(OpeningCash(i), opex_rate))

\* C3: the deployment of a period is the scenario rate, except when
\* opening cash - rate - opex < min_cash_threshold, in which case it is
\* max(0, opening cash - min_cash_threshold - opex); opening cash is the
\* cash before the period's inflows.
C3_DeploymentClamp ==
    Projecting =>
        \A i \in Periods :
            LET room == RSub(RSub(OpeningCash(i), RInt(ui.min_cash_threshold)), opex_rate)
                d == forecast_data[i].deployment
            IN  IF RLt(room, deployment_rate)
                THEN d = (IF RLt(room, RZero) THEN RZero ELSE room)
                ELSE d = deployment_rate

\* a period that the inflows would have saved from throttling
C3_Witness ==
    /\ Finished
    /\ \E i \in Periods :
        /\ ThrottleFires(i)
        /\ RLt(RZero, forecast_data[i].deployment)
        /\ ~ RLt(RSub(RSub(RAdd(OpeningCash(i), inflow_rate), deployment_rate), opex_rate),
                 RInt(ui.min_cash_threshold))

\* C4: in every period, throttled or not, Inflows is the resolved inflow
\* rate and OpEx the entered opex.
C4_OnlyDeploymentThrottled ==
    Projecting =>
        \A i \in Periods :
            /\ forecast_data[i].inflows = inflow_rate
            /\ forecast_data[i].opex = RInt(ui.opex_input)
            /\ inflow_rate =
                 ResolveInflow(ui, has_qbo_data, weekly_inflow_rate, monthly_inflow_rate)

\* a throttled period with inflows and opex
C4_Witness ==
    /\ Finished
    /\ \E i \in Periods :
        /\ ThrottleFires(i)
        /\ forecast_data[i].deployment # deployment_rate
        /\ RLt(RZero, forecast_data[i].inflows)
        /\ RLt(RZero, forecast_data[i].opex)

IsDocumentedScenario ==
    /\ closed_won_df.rows = ScenarioDeals.rows
    /\ qbo_df.rows = ScenarioQbo.rows

\* C5: with negative net flow and no throttling within the horizon, the
\* runway is (starting_cash - min_cash_threshold) / |net flow| and the cash
\* after N periods is starting_cash + N * net flow, in the headline metric
\* and in the last row; the documented scenario gives -500, 800 and 487,000.
C5_UnthrottledRunway ==
    Finished =>
        /\ (RLt(net_flow_per_period, RZero) /\ \A i \in Periods : ~ ThrottleFires(i)) =>
            /\ cash_runway_metric = "Cash Runway: periods"
            /\ RMul(runway, RSub(RZero, net_flow_per_period))
                 = RInt(ui.starting_cash - ui.min_cash_threshold)
            /\ ending_cash =
                 RAdd(RInt(ui.starting_cash),
                      RMul(RInt(ui.forecast_horizon), net_flow_per_period))
            /\ forecast_data[Len(forecast_data)].cash_position = ending_cash
            /\ Len(forecast_data) = ui.forecast_horizon + 1
        /\ IsDocumentedScenario =>
            /\ deployment_rate = RInt(10000)
            /\ inflow_rate = RInt(12000)
            /\ opex_rate = RInt(2500)
            /\ net_flow_per_period = RInt(-500)
            /\ runway = RInt(800)
            /\ ui.forecast_horizon = 26
            /\ ending_cash = RInt(487000)
            /\ forecast_data[Len(forecast_data)].cash_position = RInt(487000)

C5_Witness ==
    /\ Finished
    /\ IsDocumentedScenario
    /\ ui.starting_cash = 500000
    /\ ui.min_cash_threshold = 100000
    /\ Len(forecast_data) = 27
    /\ \A i \in Periods : ~ ThrottleFires(i)

\* C6 (as claimed): the runway outcomes are mutually exclusive: a numeric
\* runway exactly when net flow < 0 and starting_cash > min_cash_threshold,
\* "below minimum" exactly when net flow < 0 and starting_cash <=
\* min_cash_threshold, "indefinite" exactly when net flow >= 0.
C6_RunwayOutcomes ==
    Projecting =>
        LET negative == RLt(net_flow_per_period, RZero)
            usable == ui.starting_cash > ui.min_cash_threshold
        IN  /\ (cash_runway_metric = "Cash Runway: periods") <=> (negative /\ usable)
            /\ (cash_runway_metric = "Cash Runway: periods") =>
                 RMul(runway, RAbs(net_flow_per_period))
                   = RInt(ui.starting_cash - ui.min_cash_threshold)
            /\ (cash_runway_metric = "Cash Runway: Below minimum") <=> (negative /\ ~ usable)
            /\ (runway_end_metric = "Runway: Indefinite") <=> ~ negative

\* C7: the resolved deployment rate is the base rate of the chosen period
\* unit, 0.75 x base, 1.25 x base, or under "Custom" the product of the two
\* levers, whatever custom deployment amount was entered.
C7_DeploymentRateResolution ==
    pc \in {"metrics", "loop", "done"} /\ outcome = "none" =>
        LET base == IF ui.forecast_period = "Weekly"
                    THEN weekly_deployment_rate ELSE monthly_deployment_rate
            four_rates == RMul(RInt(4), deployment_rate)
        IN  /\ ui.deployment_method = "Historical Average" => deployment_rate = base
            /\ ui.deployment_method = "Conservative (75%)" => four_rates = RMul(RInt(3), base)
            /\ ui.deployment_method = "Aggressive (125%)" => four_rates = RMul(RInt(5), base)
            /\ ui.deployment_method = "Custom" =>
                 deployment_rate =
                   RMul(ui.target_deals_per_period, RInt(ui.avg_participation))
            /\ ui.deployment_method \in BaseMethods \cup {"Custom"}

\* "Custom" with an entered custom amount that differs from the lever product
C7_Witness ==
    /\ Finished
    /\ ui.deployment_method = "Custom"
    /\ ui.custom_deployment > 0
    /\ deployment_rate # RInt(ui.custom_deployment)
    /\ ui.forecast_period = "Monthly"

ValidDeals == SelectSeq(closed_won_df.rows, HasDate)
DealDays == { ValidDeals[i].date_created : i \in DOMAIN ValidDeals }
CustomerPayments == SelectSeq(qbo_df.rows, IsCustomerPayment)
PaymentDays == { CustomerPayments[i].txn_date : i \in DOMAIN CustomerPayments }
DealsEstimated == pc \in {"config", "metrics", "loop", "scenario", "done"} /\ outcome = "none"
InflowsEstimated == pc # "qbo" /\ has_qbo_data

MinHistoryDays == 30

\* C9 (as claimed): a forecast (rates, runway, projection table) is produced
\* only when at least 30 observed days of history exist.
C9_ForecastNeedsHistory ==
    (pc \in {"metrics", "loop", "done"} /\ outcome = "none") =>
        deal_total_days >= MinHistoryDays

(***************************************************************************)
(* Properties of the forecaster's inputs and of the Scenario Analysis      *)
(***************************************************************************)
\* the cash-inflow types of the dashboard's Cash Flow Analysis
\* (qbo_dashboard.py line 905)
CashInflowTypes == {"Payment", "Deposit", "Receipt"}

IsCashInflow(r) ==
    /\ r.transaction_type \in CashInflowTypes
    /\ r.customer_name \notin HouseAccounts
    /\ r.txn_date # NaT

QboRead == pc # "qbo" /\ QboUsable(qbo_df) /\ AllQboCols \subseteq qbo_df.cols

\* C15 (as claimed): the forecaster's historical inflow total is the sum of
\* the absolute amounts of exactly the dated, non-house-account transactions
\* whose type is Payment, Deposit or Receipt.
C15_InflowTotalOverCashInflowTypes ==
    QboRead =>
        total_inflows = RInt(SumAbsAmount(SelectSeq(qbo_df.rows, IsCashInflow)))

\* C16 (as claimed): when the transactions table has txn_date but lacks
\* transaction_type, customer_name or total_amount, or the deals table has
\* date_created but lacks amount, the forecaster does not raise and the
\* dependent rate is 0.
C16_MissingColumnNotFatal ==
    /\ outcome # "KeyError"
    /\ (pc # "qbo" /\ QboUsable(qbo_df) /\ ~ (AllQboCols \subseteq qbo_df.cols)) =>
           (weekly_inflow_rate = RZero /\ monthly_inflow_rate = RZero)
    /\ (pc \notin {"qbo", "deals"} /\ DealsUsable(closed_won_df)
            /\ "amount" \notin closed_won_df.cols) =>
           (weekly_deployment_rate = RZero /\ monthly_deployment_rate = RZero)

\* the cash position after n periods of the projection loop
RECURSIVE ProjectedCash(_, _, _, _, _, _)
ProjectedCash(cash, rate, inflows, opex, min_cash_threshold, n) ==
    IF n = 0 THEN cash
    ELSE ProjectedCash(PeriodRow(cash, rate, inflows, opex, min_cash_threshold).cash_position,
                       rate, inflows, opex, min_cash_threshold, n - 1)

MaxRiskTxns == 3             \* rows in the dashboard's transactions table

RiskCustomers == {"Acme", "Bolt", "CSL"}
RiskTypes == {"Invoice", "Payment"}
RiskAmounts == {-1, 4}
RiskRows ==
    [customer_name : RiskCustomers, transaction_type : RiskTypes,
     total_amount : RiskAmounts]
    \cup { [customer_name |-> "Acme", transaction_type |-> "Deposit", total_amount |-> 4] }
RiskKey(r) ==
    (IF r.customer_name = "Acme" THEN 0 ELSE IF r.customer_name = "Bolt" THEN 100 ELSE 200)
    + (IF r.transaction_type = "Invoice" THEN 0
       ELSE IF r.transaction_type = "Payment" THEN 10 ELSE 20)
    + (IF r.total_amount < 0 THEN 0 ELSE 1)
RiskTables == TablesOf(RiskRows, [r \in RiskRows |-> RiskKey(r)], MaxRiskTxns)

IsRiskRow(r) == r.transaction_type \in {"Invoice", "Payment"}
NotHouseAccount(r) == r.customer_name \notin HouseAccounts
AbsRow(r) == [r EXCEPT !.total_amount = AbsInt(r.total_amount)]

\* lines 461-466
RiskRowsOf(table) ==
    LET kept == SelectSeq(SelectSeq(table, IsRiskRow), NotHouseAccount)
    IN  [i \in DOMAIN kept |-> AbsRow(kept[i])]

RECURSIVE SumWhere(_, _, _)
SumWhere(rows, customer, type) ==
    IF rows = << >> THEN 0
    ELSE (IF Head(rows).customer_name = customer /\ Head(rows).transaction_type = type
          THEN Head(rows).total_amount ELSE 0)
         + SumWhere(Tail(rows), customer, type)

ColumnsOf(rows) == { rows[i].transaction_type : i \in DOMAIN rows }
CustomersOf(rows) == { rows[i].customer_name : i \in DOMAIN rows }

\* lines 480-486: pivot_table(index=customer_name, columns=transaction_type,
\* aggfunc="sum", fill_value=0)
PivotRow(rows, c) ==
    [Invoice |-> SumWhere(rows, c, "Invoice"), Payment |-> SumWhere(rows, c, "Payment"),
     payment_ratio |-> RZero, outstanding_balance |-> 0,
     risk_score |-> RZero, risk_category |-> "unset"]

\* lines 489-493
PaymentRatio(invoice, payment) ==
    IF invoice > 0 THEN RDiv(RInt(payment), RInt(invoice)) ELSE RZero

\* lines 497-501
RiskScore(ratio, outstanding, max_invoice) ==
    RAdd(RAdd(RMul(RSub(RInt(1), ratio), <<2, 5>>),
              RMul(RDiv(RInt(outstanding), RInt(max_invoice)), <<3, 10>>)),
         IF RLt(ratio, <<1, 2>>) THEN <<3, 10>> ELSE RZero)

\* lines 504-508: pd.cut(bins=[0, 0.2, 0.5, 1.0]) with right-closed bins
RiskCategory(score) ==
    IF RLt(RZero, score) /\ RLe(score, <<1, 5>>) THEN "Low Risk"
    ELSE IF RLt(<<1, 5>>, score) /\ RLe(score, <<1, 2>>) THEN "Medium Risk"
    ELSE IF RLt(<<1, 2>>, score) /\ RLe(score, RInt(1)) THEN "High Risk"
    ELSE "NaN"

RiskInit ==
    /\ df \in RiskTables
    /\ risk_df = << >>
    /\ payment_behavior = << >>
    /\ rpc = "filter"
    /\ ForecastIdle
    /\ PagesIdle

\* lines 457-466
FilterRisk ==
    /\ rpc = "filter"
    /\ IF Len(df) = 0
       THEN /\ rpc' = "No transaction data available for risk analysis"
            /\ UNCHANGED risk_df
       ELSE /\ risk_df' = RiskRowsOf(df)
            /\ rpc' = IF Len(risk_df') = 0 THEN "not scored" ELSE "pivot"
    /\ UNCHANGED <<df, payment_behavior, fvars, pvars>>

\* lines 480-488
PivotRisk ==
    /\ rpc = "pivot"
    /\ payment_behavior' = [c \in CustomersOf(risk_df) |-> PivotRow(risk_df, c)]
    /\ rpc' = IF {"Invoice", "Payment"} \subseteq ColumnsOf(risk_df)
              THEN "score" ELSE "not scored"
    /\ UNCHANGED <<df, risk_df, fvars, pvars>>

\* lines 489-501
ScoreRisk ==
    /\ rpc = "score"
    /\ LET max_invoice == MaxOf({ payment_behavior[c].Invoice : c \in DOMAIN payment_behavior })
       IN  payment_behavior' =
             [c \in DOMAIN payment_behavior |->
                LET row == payment_behavior[c]
                    ratio == PaymentRatio(row.Invoice, row.Payment)
                    outstanding == row.Invoice - row.Payment
                IN  [row EXCEPT !.payment_ratio = ratio,
                                !.outstanding_balance = outstanding,
                                !.risk_score = RiskScore(ratio, outstanding, max_invoice)]]
    /\ rpc' = "categorize"
    /\ UNCHANGED <<df, risk_df, fvars, pvars>>

\* lines 504-508
CategorizeRisk ==
    /\ rpc = "categorize"
    /\ payment_behavior' =
         [c \in DOMAIN payment_behavior |->
            [payment_behavior[c] EXCEPT
                !.risk_category = RiskCategory(payment_behavior[c].risk_score)]]
    /\ rpc' = "scored"
    /\ UNCHANGED <<df, risk_df, fvars, pvars>>

RiskNext ==
    \/ FilterRisk
    \/ PivotRisk
    \/ ScoreRisk
    \/ CategorizeRisk

SpecRisk == RiskInit /\ [][RiskNext]_vars

RiskLabels == {"Low Risk", "Medium Risk", "High Risk"}

\* C10: every customer with a computed risk_score has exactly one
\* risk_category among Low Risk, Medium Risk, High Risk.
C10_EveryScoreHasCategory ==
    rpc = "scored" =>
        \A c \in DOMAIN payment_behavior :
            payment_behavior[c].risk_category \in RiskLabels

\* the category the thresholds 0.2 and 0.5 give a score
ThresholdCategory(score) ==
    IF RLe(score, <<1, 5>>) THEN "Low Risk"
    ELSE IF RLe(score, <<1, 2>>) THEN "Medium Risk"
    ELSE "High Risk"

\* C11 (as claimed): the risk_category of every scored customer follows the
\* thresholds alone: Low Risk for a score <= 0.2, Medium Risk for a score in
\* (0.2, 0.5], High Risk for every score > 0.5.
C11_CategoryFollowsThresholds ==
    rpc = "scored" =>
        \A c \in DOMAIN payment_behavior :
            payment_behavior[c].risk_category =
                ThresholdCategory(payment_behavior[c].risk_score)

(***************************************************************************)
(* QBO_EDA.py: Enhanced Loan Performance Analysis (lines 272-331) and      *)
(* Original Analysis (lines 336-370)                                       *)
(***************************************************************************)
MaxEdaTxns == 2              \* rows in a table of QBO_EDA.py

EdaNames == {"Acme", "Bolt", "CSL"}
EdaTypes == {"Invoice", "Payment", "Deposit"}
EdaAmounts == {-1, 4}
EdaAccounts == {"Loans Receivable", "Checking"}
EdaRows ==
    [name : EdaNames, transaction_type : EdaTypes, amount : EdaAmounts,
     account : EdaAccounts]
EdaKey(r) ==
    (IF r.name = "Acme" THEN 0 ELSE IF r.name = "Bolt" THEN 1000 ELSE 2000)
    + (IF r.transaction_type = "Invoice" THEN 0
       ELSE IF r.transaction_type = "Payment" THEN 100 ELSE 200)
    + (IF r.amount < 0 THEN 0 ELSE 10)
    + (IF r.account = "Checking" THEN 0 ELSE 1)

EdaCols == {"name", "transaction_type", "amount", "date"}
EmptyFrame == [cols |-> {}, rows |-> << >>]      \* pd.DataFrame([])
\* Tables with at least one row: the page reads df['date'] at line 57 and gets
\* as far as line 272 only with a transaction report that has rows.
EdaTables ==
    { [cols |-> c, rows |-> s] :
        c \in {EdaCols, EdaCols \cup {"account"}},
        s \in TablesOf(EdaRows, [r \in EdaRows |-> EdaKey(r)], MaxEdaTxns) \ {<< >>} }
ReferenceTxn ==
    [cols |-> EdaCols,
     rows |-> << [name |-> "Acme", transaction_type |-> "Invoice", amount |-> 4,
                  account |-> "Checking"] >>]

\* a float that may be infinite or NaN
Finite(r) == [kind |-> "finite", value |-> r]
Inf == [kind |-> "inf", value |-> RZero]
NegInf == [kind |-> "-inf", value |-> RZero]
NaN == [kind |-> "nan", value |-> RZero]

\* pandas float division: x / 0 is inf, -inf or NaN, never an exception
FloatDiv(x, y) ==
    IF y # 0 THEN Finite(RDiv(RInt(x), RInt(y)))
    ELSE IF x > 0 THEN Inf ELSE IF x < 0 THEN NegInf ELSE NaN

\* x >= bound on floats: every comparison with NaN is False
FloatGe(x, bound) ==
    \/ x.kind = "inf"
    \/ x.kind = "finite" /\ RLe(bound, x.value)

LoanTypes == {"Invoice", "Payment", "Bill", "Credit Memo"}
\* str.contains('Loan|Receivable|Interest', case=False)
IsLoanAccount(account) == account \in {"Loans Receivable"}
IsLoanTransaction(r) == r.transaction_type \in LoanTypes \/ IsLoanAccount(r.account)

AbsAmount(r) == [r EXCEPT !.amount = AbsInt(r.amount)]

RECURSIVE SumAmountOf(_, _, _)
SumAmountOf(rows, name, type) ==
    IF rows = << >> THEN 0
    ELSE (IF Head(rows).name = name /\ Head(rows).transaction_type = type
          THEN Head(rows).amount ELSE 0)
         + SumAmountOf(Tail(rows), name, type)

NamesOf(rows) == { rows[i].name : i \in DOMAIN rows }

\* lines 309-312
EnhancedRiskLabel(ratio) ==
    IF RLt(ratio, <<1, 2>>) THEN "High Risk"
    ELSE IF RLt(ratio, <<4, 5>>) THEN "Medium Risk"
    ELSE "Low Risk"

\* lines 292-312: one row of pivot_enhanced
EnhancedRow(rows, name) ==
    LET total_invoiced == SumAmountOf(rows, name, "Invoice")
        total_payments == SumAmountOf(rows, name, "Payment")
        payment_ratio == IF total_invoiced > 0
                         THEN RDiv(RInt(total_payments), RInt(total_invoiced))
                         ELSE RZero
    IN  [total_invoiced |-> total_invoiced,
         total_payments |-> total_payments,
         outstanding_balance |-> total_invoiced - total_payments,
         payment_ratio |-> payment_ratio,
         risk_score |-> EnhancedRiskLabel(payment_ratio)]

\* lines 354-356
Indicator(balance_ratio) ==
    IF FloatGe(balance_ratio, <<1, 4>>) THEN "red"
    ELSE IF FloatGe(balance_ratio, <<1, 10>>) THEN "yellow"
    ELSE "green"

\* lines 344-356: one row of pivot
OriginalRow(rows, name) ==
    LET invoice == SumAmountOf(rows, name, "Invoice")
        payment == SumAmountOf(rows, name, "Payment")
        balance == invoice - payment
        balance_ratio == FloatDiv(balance, invoice)
    IN  [Invoice |-> invoice, Payment |-> payment, balance |-> balance,
         balance_ratio |-> balance_ratio, indicator |-> Indicator(balance_ratio)]

IsOriginalRow(r) == r.transaction_type \in {"Invoice", "Payment"}
NotHouseName(r) == r.name \notin HouseAccounts
TypesOf(rows) == { rows[i].transaction_type : i \in DOMAIN rows }

EdaInit ==
    /\ df_txn \in EdaTables
    /\ gl_df \in EdaTables \cup {EmptyFrame}
    /\ gl_df = EmptyFrame \/ df_txn = ReferenceTxn
    /\ loan_transactions = << >>
    /\ pivot_enhanced = << >>
    /\ filtered_df = << >>
    /\ pivot = << >>
    /\ epc = "enhanced"
    /\ ForecastIdle
    /\ RiskIdle
    /\ DashIdle
    /\ AuditIdle
    /\ OthersIdle

\* lines 275-331
EnhancedAnalysis ==
    /\ epc = "enhanced"
    /\ LET analysis_df == IF Len(gl_df.rows) # 0 THEN gl_df ELSE df_txn IN
       IF "account" \notin analysis_df.cols
       THEN /\ epc' = "AttributeError"
            /\ UNCHANGED <<loan_transactions, pivot_enhanced>>
       ELSE /\ loan_transactions' =
                  LET kept == SelectSeq(analysis_df.rows, IsLoanTransaction)
                  IN  [i \in DOMAIN kept |-> AbsAmount(kept[i])]
            /\ pivot_enhanced' =
                  [n \in NamesOf(loan_transactions') |-> EnhancedRow(loan_transactions', n)]
            /\ epc' = "original"
    /\ UNCHANGED <<df_txn, gl_df, filtered_df, pivot, fvars, rvars, dvars, avars, nvars>>

\* lines 339-370
OriginalAnalysis ==
    /\ epc = "original"
    /\ filtered_df' =
          LET kept == SelectSeq(SelectSeq(df_txn.rows, IsOriginalRow), NotHouseName)
          IN  [i \in DOMAIN kept |-> AbsAmount(kept[i])]
    /\ IF Len(filtered_df') = 0
       THEN /\ epc' = "rendered"
            /\ UNCHANGED pivot
       ELSE IF "Invoice" \notin TypesOf(filtered_df')
       THEN /\ epc' = "KeyError"
            /\ UNCHANGED pivot
       ELSE /\ pivot' = [n \in NamesOf(filtered_df') |-> OriginalRow(filtered_df', n)]
            /\ epc' = IF "Payment" \in TypesOf(filtered_df') THEN "rendered" ELSE "KeyError"
    /\ UNCHANGED <<df_txn, gl_df, loan_transactions, pivot_enhanced, fvars, rvars, dvars, avars, nvars>>

EdaNext ==
    \/ EnhancedAnalysis
    \/ OriginalAnalysis

SpecEda == EdaInit /\ [][EdaNext]_vars

\* C12 (as claimed): for every customer whose invoice total is 0, the ratio
\* with the invoice total as denominator is exactly 0 (payment_ratio of the
\* risk scorer and of the enhanced analysis, balance_ratio of the original
\* analysis), and computing it does not raise.
C12_ZeroInvoiceRatioIsZero ==
    /\ \A c \in DOMAIN payment_behavior :
          (rpc \in {"categorize", "scored"} /\ payment_behavior[c].Invoice = 0) =>
              payment_behavior[c].payment_ratio = RZero
    /\ \A n \in DOMAIN pivot_enhanced :
          pivot_enhanced[n].total_invoiced = 0 => pivot_enhanced[n].payment_ratio = RZero
    /\ \A n \in DOMAIN pivot :
          pivot[n].Invoice = 0 => pivot[n].balance_ratio = Finite(RZero)
    /\ ~ (epc = "KeyError" /\ pivot = << >>)      \* line 353 did not raise

\* C13 (as claimed): no per-customer table that carries a risk score or a
\* risk label has a row for a house account (CSL, VEEM), and no house-account
\* transaction is among the payments behind the forecaster's inflow rate.
C13_NoHouseAccountScored ==
    /\ DOMAIN payment_behavior \cap HouseAccounts = {}
    /\ DOMAIN pivot_enhanced \cap HouseAccounts = {}
    /\ DOMAIN pivot \cap HouseAccounts = {}

(***************************************************************************)
(* qbo_dashboard.py: preprocessing (lines 30-58), the Data Diagnostics     *)
(* expander (lines 69-223) and the Unified Analysis tab (lines 226-236)    *)
(***************************************************************************)
MaxDashRows == 1             \* rows in a table of the dashboard

NumericCols == {"total_amount", "balance", "amount"}
DateCols == {"date", "txn_date", "due_date", "created_date"}
DerivedCols == {"year_month", "week", "day_of_week", "days_since_txn"}

\* the tables as loaded: no column has been converted yet
DashCols == { {"txn_date", "total_amount", "customer_name"},
              {"total_amount", "customer_name"},
              {"txn_date", "customer_name"},
              {"customer_name"} }
DashTables ==
    { [cols |-> {}, parsed |-> {}, len |-> 0] }
    \cup { [cols |-> c, parsed |-> {}, len |-> n] : c \in DashCols, n \in 1..MaxDashRows }
UnifiedTables ==
    { [cols |-> {}, len |-> 0] }
    \cup { [cols |-> {"loan_id", "customer_name"}, len |-> n] : n \in 1..MaxDashRows }

\* DataFrame.empty
IsEmpty(table) == table.len = 0 \/ table.cols = {}

PaginationCeiling == 1000

DiagKeys ==
    {"raw_qbo_count", "total_qbo_amount", "payment_types_amount",
     "unique_deal_loan_ids", "overlapping_loan_ids"}
RawCounts == {0, PaginationCeiling - 1, PaginationCeiling, PaginationCeiling + 1}
\* the diagnostics records: complete ones, one without raw_qbo_count, and {}
DiagnosticsRecords ==
    { [k \in DiagKeys |->
         IF k = "raw_qbo_count" THEN n
         ELSE IF k = "total_qbo_amount" THEN 9
         ELSE IF k = "payment_types_amount" THEN p
         ELSE IF k = "unique_deal_loan_ids" THEN d
         ELSE o] : n \in RawCounts, p \in {5, 9}, d \in {0, 2}, o \in {0, 2} }
    \cup { [k \in {"total_qbo_amount"} |-> 9], << >> }

\* dict.get(key, default)
Get(dict, key, default) == IF key \in DOMAIN dict THEN dict[key] ELSE default

\* lines 30-54
preprocess_financial_data(table) ==
    IF IsEmpty(table) THEN table
    ELSE [table EXCEPT
            !.parsed = table.cols \cap (NumericCols \cup DateCols),
            !.cols = IF "txn_date" \in table.cols THEN @ \cup DerivedCols ELSE @]

\* line 127 with the test >= in place of ==
DataLimitationAlert_AtLeast(diag) ==
    Get(diag, "raw_qbo_count", 0) >= PaginationCeiling

\* line 127
DataLimitationAlert(diag) ==
    Get(diag, "raw_qbo_count", 0) = PaginationCeiling

\* lines 137-146
FilteringLoss(diag) ==
    Get(diag, "total_qbo_amount", 0) - Get(diag, "payment_types_amount", 0)

\* lines 173-175
OverlapRate(diag) ==
    IF Get(diag, "unique_deal_loan_ids", 0) > 0
    THEN RMul(RDiv(RInt(Get(diag, "overlapping_loan_ids", 0)),
                   RInt(Get(diag, "unique_deal_loan_ids", 0))), RInt(100))
    ELSE RZero

\* lines 72-217: what the expander shows for a non-empty diagnostics record
DiagnosticsMessages(diag) ==
    {"Overall Data Summary"}
    \cup (IF DataLimitationAlert(diag) THEN {"DATA LIMITATION ALERT"} ELSE {})
    \cup (IF FilteringLoss(diag) > 0 THEN {"Missing due to filtering"} ELSE {})
    \cup (IF RLt(OverlapRate(diag), RInt(80))
          THEN {"Only part of deal loan IDs have matching QBO payments"}
          ELSE {"deal loan IDs have matching QBO payments"})

DashInit ==
    /\ dataframe \in DashTables
    /\ diagnostics \in DiagnosticsRecords
    /\ unified_data_df \in UnifiedTables
    /\ shown = {}
    /\ dpc = "preprocess"
    /\ ForecastIdle
    /\ RiskIdle
    /\ EdaIdle
    /\ AuditIdle
    /\ OthersIdle

\* line 57 (line 58 makes the same call on gl_df, which no section below reads)
Preprocess ==
    /\ dpc = "preprocess"
    /\ dataframe' = preprocess_financial_data(dataframe)
    /\ dpc' = "diagnostics"
    /\ UNCHANGED <<diagnostics, unified_data_df, shown, fvars, rvars, evars, avars, nvars>>

\* lines 69-223; closed_won_deals (line 221) is bound nowhere in the page
DataDiagnostics ==
    /\ dpc = "diagnostics"
    /\ IF diagnostics # << >>
       THEN /\ shown' = shown \cup DiagnosticsMessages(diagnostics)
            /\ dpc' = "tabs"
       ELSE /\ shown' = shown \cup {"Unable to load diagnostic data"}
            /\ dpc' = "NameError"
    /\ UNCHANGED <<dataframe, diagnostics, unified_data_df, fvars, rvars, evars, avars, nvars>>

\* lines 226-236
UnifiedAnalysisTab ==
    /\ dpc = "tabs"
    /\ IF IsEmpty(unified_data_df)
       THEN /\ shown' = shown \cup {"No unified data available"}
            /\ dpc' = "loan tape tab"
       ELSE /\ shown' = shown \cup {"Comprehensive Loan & Customer Analysis"}
            /\ dpc' = "unified analysis"
    /\ UNCHANGED <<dataframe, diagnostics, unified_data_df, fvars, rvars, evars, avars, nvars>>

DashNext ==
    \/ Preprocess
    \/ DataDiagnostics
    \/ UnifiedAnalysisTab

SpecDash == DashInit /\ [][DashNext]_vars

PastDiagnostics == dpc \notin {"idle", "preprocess", "diagnostics"}

\* C14: once the Data Diagnostics expander has run, the data-limitation alert
\* is shown if and only if the raw transaction count of the diagnostics
\* record is exactly 1000.
C14_AlertExactlyAtCeiling ==
    PastDiagnostics =>
        (("DATA LIMITATION ALERT" \in shown) <=>
            ("raw_qbo_count" \in DOMAIN diagnostics
             /\ diagnostics["raw_qbo_count"] = PaginationCeiling))

C14_Witness ==
    /\ PastDiagnostics
    /\ "DATA LIMITATION ALERT" \in shown
    /\ diagnostics["raw_qbo_count"] = PaginationCeiling

(***************************************************************************)
(* audit.py: the deals table (lines 23-27), the missing loan ID check      *)
(* (lines 32-60) and the duplicate check (lines 122-131)                   *)
(***************************************************************************)
MaxAuditDeals == 2           \* rows in the audit page's deals table

Null == "null"               \* a loan_id that is None / NaN
LoanIds == {Null, "", " ", "L1"}
\* recent: date_created is within the last 30 days
AuditRows == [loan_id : LoanIds, is_closed_won : BOOLEAN, recent : BOOLEAN]
AuditKey(r) ==
    (IF r.loan_id = Null THEN 0 ELSE IF r.loan_id = "" THEN 10
     ELSE IF r.loan_id = " " THEN 20 ELSE 30)
    + (IF r.is_closed_won THEN 0 ELSE 1) + (IF r.recent THEN 0 ELSE 2)
AuditCols == {"id", "date_created", "is_closed_won", "loan_id"}
\* pd.DataFrame(res.data): a table without rows has no columns either
AuditTables ==
    { [cols |-> IF s = << >> THEN {} ELSE AuditCols, rows |-> s]
        : s \in TablesOf(AuditRows, [r \in AuditRows |-> AuditKey(r)], MaxAuditDeals) }

\* str.strip() on the loan IDs above
Strip(loan_id) == IF loan_id = " " THEN "" ELSE loan_id

IsWon(r) == r.is_closed_won = TRUE
\* lines 38-42 and 168-172
IsMissingLoanId_NoStrip(r) ==
    \/ r.loan_id = Null
    \/ r.loan_id = ""
IsMissingLoanId(r) ==
    \/ r.loan_id = Null
    \/ r.loan_id = ""
    \/ Strip(r.loan_id) = ""
\* line 123
HasLoanId(r) == r.loan_id # Null /\ r.loan_id # ""

\* line 53
MissingPct(missing, won) ==
    IF won > 0 THEN RMul(RDiv(RInt(missing), RInt(won)), RInt(100)) ELSE RZero

\* line 123: Series.duplicated().sum()
DuplicatedCount(rows) ==
    Len(rows) - Cardinality({ rows[i].loan_id : i \in DOMAIN rows })

AuditInit ==
    /\ audit_df \in AuditTables
    /\ won_deals = << >>
    /\ missing_loan_ids = << >>
    /\ missing_pct = RZero
    /\ duplicate_loan_ids = 0
    /\ recent_missing_ids = << >>
    /\ audit_shown = {}
    /\ apc = "load"
    /\ ForecastIdle
    /\ RiskIdle
    /\ EdaIdle
    /\ DashIdle
    /\ OthersIdle

\* lines 24-27: df["date_created"] needs the column
LoadAuditDeals ==
    /\ apc = "load"
    /\ apc' = IF "date_created" \in audit_df.cols THEN "missing loan ids" ELSE "KeyError"
    /\ UNCHANGED <<audit_df, won_deals, missing_loan_ids, missing_pct,
                   duplicate_loan_ids, recent_missing_ids, audit_shown, fvars, rvars, evars, dvars, nvars>>

\* lines 32-60
MissingLoanIdCheck ==
    /\ apc = "missing loan ids"
    /\ won_deals' = SelectSeq(audit_df.rows, IsWon)
    /\ missing_loan_ids' = SelectSeq(won_deals', IsMissingLoanId)
    /\ missing_pct' = MissingPct(Len(missing_loan_ids'), Len(won_deals'))
    /\ audit_shown' = audit_shown \cup
          (IF Len(missing_loan_ids') = 0
           THEN {"All won deals have loan IDs assigned"}
           ELSE {"Found won deals missing loan IDs"})
    /\ apc' = "duplicates"
    /\ UNCHANGED <<audit_df, duplicate_loan_ids, recent_missing_ids,
                   fvars, rvars, evars, dvars, nvars>>

\* lines 122-131
DuplicateCheck ==
    /\ apc = "duplicates"
    /\ duplicate_loan_ids' = DuplicatedCount(SelectSeq(audit_df.rows, HasLoanId))
    /\ audit_shown' = audit_shown \cup
          (IF duplicate_loan_ids' = 0
           THEN {"No duplicate loan IDs found"}
           ELSE {"Found duplicate loan IDs"})
    /\ apc' = "critical fields"
    /\ UNCHANGED <<audit_df, won_deals, missing_loan_ids, missing_pct, recent_missing_ids,
                   fvars, rvars, evars, dvars, nvars>>

IsRecent(r) == r.recent
\* lines 133-175: the critical fields table, then the Recent Activity Summary
RecentActivity ==
    /\ apc = "critical fields"
    /\ recent_missing_ids' =
          SelectSeq(SelectSeq(SelectSeq(audit_df.rows, IsRecent), IsWon), IsMissingLoanId)
    /\ apc' = "freshness"
    /\ UNCHANGED <<audit_df, won_deals, missing_loan_ids, missing_pct, duplicate_loan_ids,
                   audit_shown, fvars, rvars, evars, dvars, nvars>>

AuditNext ==
    \/ LoadAuditDeals
    \/ MissingLoanIdCheck
    \/ DuplicateCheck
    \/ RecentActivity

SpecAudit == AuditInit /\ [][AuditNext]_vars

\* C17 (as claimed): a deals table without rows makes the forecaster report
\* 'No deal data available for forecasting' and the audit page render its
\* checks with zero counts, an empty unified table makes the dashboard show
\* 'No unified data available', and none of the three raises.
C17_EmptyTableGivesNoDataMessage ==
    /\ (pc = "done" /\ Len(closed_won_df.rows) = 0
            /\ (QboUsable(qbo_df) => AllQboCols \subseteq qbo_df.cols)) =>
           outcome = "No deal data available for forecasting"
    /\ (apc \notin {"idle", "load"} /\ Len(audit_df.rows) = 0) =>
           /\ apc # "KeyError"
           /\ Len(won_deals) = 0
           /\ Len(missing_loan_ids) = 0
           /\ missing_pct = RZero
    /\ (dpc \in {"loan tape tab", "unified analysis"} /\ IsEmpty(unified_data_df)) =>
           "No unified data available" \in shown

\* C19 (as claimed): no step of create_cash_flow_forecast and no call of
\* preprocess_financial_data changes the caller's tables: same columns, and
\* the same values in every column.
C19_InputsNeverModified ==
    [][/\ dataframe' = dataframe
       /\ qbo_df' = qbo_df
       /\ closed_won_df' = closed_won_df]_vars

\* C20 (as claimed): with an empty diagnostics record the dashboard reports
\* 'Unable to load diagnostic data' and goes on to its tabs; the expander
\* does not raise.
C20_NoDiagnosticsStillRenders ==
    (PastDiagnostics /\ diagnostics = << >>) =>
        /\ "Unable to load diagnostic data" \in shown
        /\ dpc # "NameError"

(***************************************************************************)
(* The reconciliation engine behind load_unified_loan_customer_data and    *)
(* get_customer_payment_summary, and the 'Unattributed Payments' figures   *)
(* of pages/qbo_dashboard.py (lines 265-267 and 395-400).                  *)
(***************************************************************************)
MaxReconDeals == 1           \* rows in the engine's Deals
MaxReconTxns == 2            \* rows in the engine's Transactions

ReconLoanIds == {Null, "L1"}
ReconCustomers == {"Acme", "Bolt"}
ReconTypes == {"Payment", "Invoice"}
ReconAmounts == {-3, 5}
ReconDealRows ==
    [loan_id : ReconLoanIds, customer_name : ReconCustomers, is_closed_won : BOOLEAN]
ReconTxnRows ==
    [loan_id : ReconLoanIds, customer_name : ReconCustomers,
     transaction_type : ReconTypes, amount : ReconAmounts]
ReconDealKey(r) ==
    (IF r.loan_id = Null THEN 0 ELSE 4) + (IF r.customer_name = "Acme" THEN 0 ELSE 2)
    + (IF r.is_closed_won THEN 0 ELSE 1)
ReconTxnKey(r) ==
    (IF r.loan_id = Null THEN 0 ELSE 8) + (IF r.customer_name = "Acme" THEN 0 ELSE 4)
    + (IF r.transaction_type = "Payment" THEN 0 ELSE 2) + (IF r.amount < 0 THEN 0 ELSE 1)
ReconDeals == TablesOf(ReconDealRows, [r \in ReconDealRows |-> ReconDealKey(r)], MaxReconDeals)
\* transactions arrive in any order
ReconTxns ==
    UNION { [1..n -> ReconTxnRows] : n \in 0..MaxReconTxns }

RECURSIVE SumOf(_)
SumOf(ints) == IF ints = << >> THEN 0 ELSE Head(ints) + SumOf(Tail(ints))

\* step 2: join keys are trimmed strings; empty and null are the missing sentinel
NormalizeKey(loan_id) ==
    IF loan_id = Null \/ Strip(loan_id) = "" THEN Null ELSE Strip(loan_id)
\* step 3: exact equality of present keys
KeysMatch(a, b) == NormalizeKey(a) # Null /\ NormalizeKey(a) = NormalizeKey(b)
\* step 5: the inflow set
InflowSet == {"Payment", "Deposit", "Receipt"}
AttributedTo(deal, txns) ==
    SelectSeq(txns, LAMBDA t : KeysMatch(deal.loan_id, t.loan_id))
\* step 5
RtrAmount(deal, txns) ==
    SumOf([i \in DOMAIN AttributedTo(deal, txns) |->
              IF AttributedTo(deal, txns)[i].transaction_type \in InflowSet
              THEN AbsInt(AttributedTo(deal, txns)[i].amount) ELSE 0])
\* step 4: payments by customer_name, whatever their loan_id
TotalCustomerPayments(customer, txns) ==
    SumOf([i \in DOMAIN txns |->
              IF txns[i].customer_name = customer /\ txns[i].transaction_type \in InflowSet
              THEN AbsInt(txns[i].amount) ELSE 0])
\* step 6
UnattributedAmount(total_customer_payments, rtr_amount) ==
    IF total_customer_payments - rtr_amount > 0
    THEN total_customer_payments - rtr_amount ELSE 0
\* one UnifiedLoanRecord; qbo_customer is the customer of the loan's first transaction
UnifiedLoanRecord(deal, txns) ==
    LET qbo_customer == AttributedTo(deal, txns)[1].customer_name
        rtr_amount == RtrAmount(deal, txns)
        total == TotalCustomerPayments(qbo_customer, txns)
    IN  [loan_id |-> NormalizeKey(deal.loan_id),
         deal_name |-> deal.customer_name,
         qbo_customer |-> qbo_customer,
         rtr_amount |-> rtr_amount,
         total_customer_payments |-> total,
         unattributed_amount |-> UnattributedAmount(total, rtr_amount)]
\* steps 1 and 3: the won deals with at least one transaction on their loan_id
MatchedDeals(deals, txns) ==
    SelectSeq(deals, LAMBDA d : IsWon(d) /\ AttributedTo(d, txns) # << >>)
\* CustomerPaymentSummary: the payments of the customer that carry no loan_id
CustomerSummaryRow(customer, txns) ==
    [customer |-> customer,
     total_payments |-> TotalCustomerPayments(customer, txns),
     unattributed_amount |->
         SumOf([i \in DOMAIN txns |->
                   IF /\ txns[i].customer_name = customer
                      /\ txns[i].transaction_type \in InflowSet
                      /\ NormalizeKey(txns[i].loan_id) = Null
                   THEN AbsInt(txns[i].amount) ELSE 0])]
CustomerSummary(txns) ==
    LET names == { txns[i].customer_name : i \in DOMAIN txns }
        present == SelectSeq(<<"Acme", "Bolt">>, LAMBDA c : c \in names)
    IN  [i \in DOMAIN present |-> CustomerSummaryRow(present[i], txns)]

\* lines 266 and 396: the sum of the 'Unattributed Amount' column
SumUnattributed(rows) ==
    SumOf([i \in DOMAIN rows |-> rows[i].unattributed_amount])

ReconInit ==
    /\ recon_deals \in ReconDeals
    /\ recon_txns \in ReconTxns
    /\ unified_records = << >>
    /\ customer_summary = << >>
    /\ total_unattributed = [unified |-> 0, summary |-> 0]
    /\ unattributed_warning = FALSE
    /\ kpc = "reconcile"
    /\ ForecastIdle
    /\ RiskIdle
    /\ EdaIdle
    /\ DashIdle
    /\ AuditIdle
    /\ CacheIdle
    /\ CombineIdle

\* the Unified Loan Record set and the customer summary are rebuilt in full
Reconcile ==
    /\ kpc = "reconcile"
    /\ unified_records' =
          [i \in DOMAIN MatchedDeals(recon_deals, recon_txns) |->
              UnifiedLoanRecord(MatchedDeals(recon_deals, recon_txns)[i], recon_txns)]
    /\ customer_summary' = CustomerSummary(recon_txns)
    /\ kpc' = "unified tab"
    /\ UNCHANGED <<recon_deals, recon_txns, total_unattributed, unattributed_warning,
                   fvars, rvars, evars, dvars, avars, cvars, mvars>>

\* lines 265-267
UnifiedUnattributed ==
    /\ kpc = "unified tab"
    /\ total_unattributed' =
          [total_unattributed EXCEPT !.unified = SumUnattributed(unified_records)]
    /\ kpc' = "customer tab"
    /\ UNCHANGED <<recon_deals, recon_txns, unified_records, customer_summary,
                   unattributed_warning, fvars, rvars, evars, dvars, avars, cvars, mvars>>

\* lines 395-400
CustomerUnattributed ==
    /\ kpc = "customer tab"
    /\ total_unattributed' =
          [total_unattributed EXCEPT !.summary = SumUnattributed(customer_summary)]
    /\ unattributed_warning' = (total_unattributed'.summary > 0)
    /\ kpc' = "done"
    /\ UNCHANGED <<recon_deals, recon_txns, unified_records, customer_summary,
                   fvars, rvars, evars, dvars, avars, cvars, mvars>>

ReconNext ==
    \/ Reconcile
    \/ UnifiedUnattributed
    \/ CustomerUnattributed

SpecRecon == ReconInit /\ [][ReconNext]_vars

ttl == 3600                  \* seconds
MaxTtls == 2                 \* the clock stops after this many TTLs
MaxVersions == 2             \* changes of the database during a run
MaxQueries == 3              \* queries of load_deals after which the button rests

Loaders == {"load_deals", "load_qbo_data"}
NoEntry == [value |-> -1, loaded_at |-> -1]
NotServed == NoEntry.value
\* the page whose script calls the loader
RunOf(loader) == IF loader = "load_deals" THEN "audit run" ELSE "eda run"
RenderedOf(loader) == IF loader = "load_deals" THEN "audit rendered" ELSE "eda rendered"

\* st.cache_data(ttl=3600): an entry expires ttl seconds after it was stored
Fresh_NeverExpires(entry, t) == entry # NoEntry
Fresh(entry, t) == entry # NoEntry /\ t - entry.loaded_at < ttl

\* the decorated loader: the cached entry while fresh, else the query's result
cache_data(entry, t, version) ==
    IF Fresh(entry, t) THEN entry ELSE [value |-> version, loaded_at |-> t]

\* st.cache_data.clear() empties the cache of every decorated function
clear_Nothing(c) == c
clear(c) == [l \in Loaders |-> NoEntry]

CacheInit ==
    /\ now = 0
    /\ source_version = 0
    /\ cache = [l \in Loaders |-> NoEntry]
    /\ served = [l \in Loaders |-> NotServed]
    /\ queries = [l \in Loaders |-> 0]
    /\ trigger = "start"
    /\ cpc \in {"audit run", "eda run"}
    /\ ForecastIdle
    /\ RiskIdle
    /\ EdaIdle
    /\ DashIdle
    /\ AuditIdle
    /\ ReconIdle
    /\ CombineIdle

\* audit.py line 24 and QBO_EDA.py line 21: the script calls its loader
LoaderCall(loader) ==
    /\ cpc = RunOf(loader)
    /\ cache' = [cache EXCEPT ![loader] = cache_data(cache[loader], now, source_version)]
    /\ served' = [served EXCEPT ![loader] = cache'[loader].value]
    /\ queries' = [queries EXCEPT ![loader] =
                      IF Fresh(cache[loader], now) THEN @ ELSE @ + 1]
    /\ cpc' = RenderedOf(loader)
    /\ UNCHANGED <<now, source_version, trigger,
                   fvars, rvars, evars, dvars, avars, kvars, mvars>>

load_deals == LoaderCall("load_deals")
load_qbo_data == LoaderCall("load_qbo_data")

\* the user opens a page or moves a widget: the page's script runs again
ScriptRerun ==
    /\ cpc \in {"audit rendered", "eda rendered"}
    /\ cpc' \in {"audit run", "eda run"}
    /\ trigger' = "widget"
    /\ UNCHANGED <<now, source_version, cache, served, queries,
                   fvars, rvars, evars, dvars, avars, kvars, mvars>>

\* audit.py lines 199-203: st.cache_data.clear(), st.success, st.rerun()
RefreshDataCache ==
    /\ cpc = "audit rendered"
    /\ queries["load_deals"] < MaxQueries
    /\ cache' = clear(cache)
    /\ trigger' = "refresh"
    /\ cpc' = "audit run"
    /\ UNCHANGED <<now, source_version, served, queries,
                   fvars, rvars, evars, dvars, avars, kvars, mvars>>

\* half a TTL passes
Tick ==
    /\ now < MaxTtls * ttl
    /\ now' = now + ttl \div 2
    /\ UNCHANGED <<source_version, cache, served, queries, trigger, cpc,
                   fvars, rvars, evars, dvars, avars, kvars, mvars>>

\* the tables in the database change
SourceChanges ==
    /\ source_version < MaxVersions
    /\ source_version' = source_version + 1
    /\ UNCHANGED <<now, cache, served, queries, trigger, cpc,
                   fvars, rvars, evars, dvars, avars, kvars, mvars>>

CacheNext ==
    \/ load_deals
    \/ load_qbo_data
    \/ ScriptRerun
    \/ RefreshDataCache
    \/ Tick
    \/ SourceChanges

SpecCache == CacheInit /\ [][CacheNext]_vars

\* C22: a cached loader serves its stored table without a query only while
\* the table is less than 3600 s old; the first call after that queries the
\* database again; a table older than the TTL is never returned.
C22_LoaderCacheTimeBounded ==
    [][\A l \in Loaders :
          (cpc = RunOf(l) /\ cpc' = RenderedOf(l)) =>
              /\ queries'[l] = queries[l] =>
                    /\ cache[l] # NoEntry
                    /\ now - cache[l].loaded_at < ttl
                    /\ served'[l] = cache[l].value
              /\ (cache[l] # NoEntry /\ now - cache[l].loaded_at < ttl) =>
                    queries'[l] = queries[l]
              /\ (cache[l] # NoEntry /\ now - cache[l].loaded_at >= ttl) =>
                    /\ queries'[l] = queries[l] + 1
                    /\ served'[l] = source_version
              /\ now - cache'[l].loaded_at < ttl
              /\ served'[l] = cache'[l].value]_vars

\* load_qbo_data has re-queried after its entry expired (no refresh: the audit
\* page never ran) and has served a cached table before
C22_Witness ==
    /\ queries["load_deals"] = 0
    /\ queries["load_qbo_data"] = 2
    /\ cache["load_qbo_data"].loaded_at >= ttl
    /\ served["load_qbo_data"] = cache["load_qbo_data"].value
    /\ cpc = "eda rendered"

\* C23: 'Refresh Data Cache' empties the cache and re-runs the page; the
\* load_deals call of that run queries the database whatever TTL remained,
\* and its result is cached again.
C23_RefreshForcesQuery ==
    [][/\ (cpc = "audit rendered" /\ cpc' # cpc /\ trigger' = "refresh") =>
              /\ \A l \in Loaders : cache'[l] = NoEntry
              /\ cpc' = "audit run"
       /\ (trigger = "refresh" /\ cpc = "audit run" /\ cpc' = "audit rendered") =>
              /\ queries'["load_deals"] = queries["load_deals"] + 1
              /\ served'["load_deals"] = source_version
              /\ cache'["load_deals"] = [value |-> source_version, loaded_at |-> now]]_vars

\* a refresh was followed by a query although the replaced entry, loaded at
\* time 0, had not expired
C23_Witness ==
    /\ trigger = "refresh"
    /\ cpc = "audit rendered"
    /\ now < ttl
    /\ queries["load_deals"] = 2
    /\ cache["load_deals"].loaded_at = now

\* the rows of a table counted by a check that takes a missing loan ID to be a
\* null or, once trimmed, empty one
MissingAmongWon(rows) ==
    SelectSeq(rows, LAMBDA r : r.is_closed_won /\ (r.loan_id = Null \/ Strip(r.loan_id) = ""))

\* C24: the missing-loan-ID checks of the audit count a deal iff it is
\* closed-won and its trimmed loan_id is null or empty (null, "" and
\* whitespace alike); deals that are not won are never counted; the missing
\* rate is 0 when there is no won deal.
C24_MissingLoanIdCheck ==
    /\ apc \in {"duplicates", "critical fields", "freshness"} =>
          /\ missing_loan_ids = MissingAmongWon(audit_df.rows)
          /\ \A i \in DOMAIN missing_loan_ids : missing_loan_ids[i].is_closed_won
          /\ (Len(won_deals) = 0 => missing_pct = RZero)
          /\ (Len(won_deals) > 0 =>
                 missing_pct = RDiv(RInt(100 * Len(missing_loan_ids)), RInt(Len(won_deals))))
    /\ apc = "freshness" =>
          recent_missing_ids = MissingAmongWon(SelectSeq(audit_df.rows, IsRecent))

\* a won deal with a whitespace loan_id is counted, a deal that is not won and
\* has no loan_id is not
C24_Witness ==
    /\ apc = "freshness"
    /\ Len(audit_df.rows) = 2
    /\ \E i \in DOMAIN audit_df.rows :
          ~ audit_df.rows[i].is_closed_won /\ audit_df.rows[i].loan_id = Null
    /\ Len(missing_loan_ids) = 1
    /\ missing_loan_ids[1].loan_id = " "
    /\ Len(recent_missing_ids) = 1

(***************************************************************************)
(* scripts/combine_hubspot_mca.py: combine_deals (lines 18-44)             *)
(***************************************************************************)
MaxCombineRows == 2          \* rows in each of the two fetched tables

HubspotRows == [loan_id : LoanIds]
McaRows == [deal_number : LoanIds]
JoinKeyOrder == [k \in LoanIds |->
    IF k = Null THEN 0 ELSE IF k = "" THEN 1 ELSE IF k = " " THEN 2 ELSE 3]
\* fetch_table (lines 15-16): pd.DataFrame(data) of no rows has no columns
HubspotTables ==
    { [cols |-> IF t = << >> THEN {} ELSE {"id", "loan_id"}, rows |-> t]
        : t \in TablesOf(HubspotRows, [r \in HubspotRows |-> JoinKeyOrder[r.loan_id]],
                         MaxCombineRows) }
McaTables ==
    { [cols |-> IF t = << >> THEN {} ELSE {"id", "deal_number"}, rows |-> t]
        : t \in TablesOf(McaRows, [r \in McaRows |-> JoinKeyOrder[r.deal_number]],
                         MaxCombineRows) }

\* astype(str): None becomes the string "None", a string stays as it is
AsStr(value) == IF value = Null THEN "None" ELSE value
\* line 23: dropna(subset=["loan_id"])
HasNonNullLoanId(r) == r.loan_id # Null

RECURSIVE Concat(_)
Concat(seqs) == IF seqs = << >> THEN << >> ELSE Head(seqs) \o Concat(Tail(seqs))

\* lines 28-35: pd.merge(how="inner", left_on="loan_id", right_on="deal_number");
\* a combined row keeps the key each side had when fetched
InnerMerge(left, right) ==
    Concat([i \in DOMAIN left |->
              LET matches == SelectSeq(right,
                                LAMBDA m : AsStr(m.deal_number) = AsStr(left[i].loan_id))
              IN  [j \in DOMAIN matches |->
                      [loan_id |-> left[i].loan_id,
                       deal_number |-> matches[j].deal_number]]])

CombineInit ==
    /\ hubspot_deals \in HubspotTables
    /\ mca \in McaTables
    /\ combined = << >>
    /\ mpc = "combine"
    /\ ForecastIdle
    /\ RiskIdle
    /\ EdaIdle
    /\ DashIdle
    /\ AuditIdle
    /\ ReconIdle
    /\ CacheIdle

\* lines 18-44; lines 23 and 25 raise KeyError on a table without the column
combine_deals ==
    /\ mpc = "combine"
    /\ IF "loan_id" \in hubspot_deals.cols /\ "deal_number" \in mca.cols
       THEN /\ combined' = InnerMerge(SelectSeq(hubspot_deals.rows, HasNonNullLoanId),
                                      mca.rows)
            /\ mpc' = "done"
       ELSE /\ combined' = << >>
            /\ mpc' = "KeyError"
    /\ UNCHANGED <<hubspot_deals, mca, fvars, rvars, evars, dvars, avars, kvars, cvars>>

CombineNext == combine_deals

SpecCombine == CombineInit /\ [][CombineNext]_vars

\* C25 (as claimed): no combined row comes from a deal whose loan_id is null,
\* empty or whitespace-only, nor from an mca_deals row whose deal_number is
\* null or empty; every combined row pairs a deal and an mca deal whose keys
\* are equal as strings.
C25_MissingKeyNeverMatches ==
    \A i \in DOMAIN combined :
        /\ combined[i].loan_id # Null
        /\ Strip(combined[i].loan_id) # ""
        /\ combined[i].deal_number \notin {Null, ""}
        /\ AsStr(combined[i].loan_id) = AsStr(combined[i].deal_number)

\* the closed-won rows of the audit table whose loan_id is present
WonWithLoanId(rows) ==
    SelectSeq(rows, LAMBDA r : r.is_closed_won /\ r.loan_id # Null /\ Strip(r.loan_id) # "")

\* C26 (as claimed): the 'Duplicate Loan IDs' count of the audit is the number
\* of closed-won deals with a present loan_id minus the number of distinct
\* such ids, hence 0 exactly when no present loan_id repeats among the won
\* deals; deals that are not won do not affect it.
C26_DuplicatesAmongWonDeals ==
    apc \in {"critical fields", "freshness"} =>
        duplicate_loan_ids =
            Len(WonWithLoanId(audit_df.rows))
            - Cardinality({ WonWithLoanId(audit_df.rows)[i].loan_id
                                : i \in DOMAIN WonWithLoanId(audit_df.rows) })

\* C27: with a resolved deployment rate >= 0, the Deployment recorded in
\* every forecast period lies between 0 and that rate.
C27_DeploymentWithinRate ==
    (Projecting /\ RLe(RZero, deployment_rate)) =>
        \A i \in Periods :
            /\ RLe(RZero, forecast_data[i].deployment)
            /\ RLe(forecast_data[i].deployment, deployment_rate)

\* one period throttled to a positive amount below the rate, and one to 0
\* because the opening cash does not cover the opex above the reserve
C27_Witness ==
    /\ Finished
    /\ RLt(RZero, deployment_rate)
    /\ \E i \in Periods :
          /\ RLt(RZero, forecast_data[i].deployment)
          /\ RLt(forecast_data[i].deployment, deployment_rate)
    /\ \E i \in Periods :
          /\ forecast_data[i].deployment = RZero
          /\ RLt(RSub(OpeningCash(i), opex_rate), RInt(ui.min_cash_threshold))

\* C28: if starting_cash >= min_cash_threshold, the deployment rate is >= 0
\* and the inflow rate is >= opex, every Cash Position is >=
\* min_cash_threshold and the 'Cash will fall below minimum reserve' warning
\* is not shown; a period whose deployment is throttled to a positive amount
\* ends with Cash Position = min_cash_threshold + inflows.
C28_FloorHeldWhenInflowsCoverOpex ==
    Projecting =>
        /\ (/\ ui.starting_cash >= ui.min_cash_threshold
            /\ RLe(RZero, deployment_rate)
            /\ RLe(opex_rate, inflow_rate)) =>
               /\ \A i \in DOMAIN forecast_data :
                     RLe(RInt(ui.min_cash_threshold), forecast_data[i].cash_position)
               /\ ~ below_min_warning
        /\ \A i \in Periods :
              (ThrottleFires(i) /\ RLt(RZero, forecast_data[i].deployment)) =>
                  forecast_data[i].cash_position =
                      RAdd(RInt(ui.min_cash_threshold), forecast_data[i].inflows)

\* inflows cover the opex, and a period is throttled to a positive amount
C28_Witness ==
    /\ Finished
    /\ ui.starting_cash >= ui.min_cash_threshold
    /\ RLt(RZero, deployment_rate)
    /\ RLt(RZero, opex_rate)
    /\ RLe(opex_rate, inflow_rate)
    /\ \E i \in Periods :
          /\ ThrottleFires(i)
          /\ RLt(RZero, forecast_data[i].deployment)
          /\ RLt(forecast_data[i].deployment, deployment_rate)

\* C29 (as claimed): the headline 'Cash in N periods' metric, starting_cash +
\* net_flow_per_period * forecast_horizon, equals the Cash Position of the
\* last row of the projection table, whatever the rates, the starting cash,
\* the minimum reserve and the horizon.
C29_HeadlineMatchesLastRow ==
    Finished =>
        /\ ending_cash = EndingCash(ui.starting_cash, net_flow_per_period, ui.forecast_horizon)
        /\ forecast_data[Len(forecast_data)].cash_position = ending_cash

\* C30 (as claimed): with a negative net flow the forecaster never reports
\* an indefinite runway: the headline metrics show either a runway length
\* together with an end date, or 'Below minimum' without 'Indefinite', and
\* the adjusted metrics of the Scenario Analysis agree in the same way.
C30_NoIndefiniteWithNegativeFlow ==
    /\ (Projecting /\ RLt(net_flow_per_period, RZero)) =>
          /\ runway_end_metric # "Runway: Indefinite"
          /\ \/ /\ cash_runway_metric = "Cash Runway: periods"
                /\ runway_end_metric = "Runway Ends: date"
             \/ cash_runway_metric = "Cash Runway: Below minimum"
    /\ (Finished /\ RLt(adjusted_net_flow, RZero)) =>
          /\ adjusted_end_metric # "Adjusted Runway: Indefinite"
          /\ (adjusted_runway_metric = "Adjusted Runway: periods") <=>
                (adjusted_end_metric \in {"Adjusted End Date: date", "Runway End Date: date"})

====
